---------------------------- MODULE Spec2Model ----------------------------
(***************************************************************************)
(* A model of pydantic_jsonld: the JSON-LD context compiler                *)
(* (models.py), and the canonicalize / hash / sign / verify pipeline of    *)
(* Ed25519Signature2020 proofs (signatures.py, crypto_utils.py).           *)
(*                                                                         *)
(* Python values are tagged records [t |-> tag, v |-> payload]; a Python   *)
(* dict is a TLA+ function whose DOMAIN is its key set.  A call that may   *)
(* raise returns [ok, val, err].                                           *)
(***************************************************************************)
EXTENDS Naturals, Sequences, FiniteSets, TLC

VARIABLES
    callerDoc,       \* the JSON-LD document the caller starts from
    classFields,     \* the declared fields of the model class, in order
    callerInstance,  \* the model instance the caller starts from
    held,            \* the document the caller holds now
    sig1,            \* the sign call whose result the caller holds
    tampered,        \* what was changed in held since it was signed, or "none"
    last,            \* the latest call: operation, argument, outcome
    cfg,             \* per model class: the attributes set by configure_jsonld
    nconf            \* number of configure_jsonld calls made

vars ==
    <<callerDoc, classFields, callerInstance, held, sig1, tampered, last, cfg,
      nconf>>

(***************************************************************************)
(* Bounds of the model.                                                    *)
(***************************************************************************)
MaxClock == 1
MaxConfigs == 2

(***************************************************************************)
(* Python values.                                                          *)
(***************************************************************************)
Str(s) == [t |-> "str", v |-> s]
B64Str(bytes) == [t |-> "b64", v |-> bytes]   \* the str b64encode(bytes)
Dict(f) == [t |-> "dict", v |-> f]
List(s) == [t |-> "list", v |-> s]
Tuple(s) == [t |-> "tuple", v |-> s]
PyObj(s) == [t |-> "pyobj", v |-> s]          \* e.g. a datetime
PyNone == [t |-> "none", v |-> "None"]
EmptyDict == [k \in {} |-> PyNone]

Ok(x) == [ok |-> TRUE, val |-> x, err |-> "none"]
Raise(e) == [ok |-> FALSE, val |-> EmptyDict, err |-> e]

\* d with key k deleted (del d[k]) and d with k set to x (d[k] = x).
DictDel(d, k) == [j \in (DOMAIN d) \ {k} |-> d[j]]
DictSet(d, k, x) == [j \in (DOMAIN d) \cup {k} |-> IF j = k THEN x ELSE d[j]]
\* {**a, **b}: the keys of b override those of a.
DictMerge(a, b) ==
    [j \in (DOMAIN a) \cup (DOMAIN b) |-> IF j \in DOMAIN b THEN b[j] ELSE a[j]]

(***************************************************************************)
(* json.loads(json.dumps(x)): the copy made by sign, verify, remove_proof. *)
(* A tuple comes back as a list; an object json cannot encode raises.      *)
(***************************************************************************)
RECURSIVE JsonSerializable(_)
JsonSerializable(x) ==
    CASE x.t = "pyobj" -> FALSE
      [] x.t \in {"list", "tuple"} ->
            \A i \in DOMAIN x.v : JsonSerializable(x.v[i])
      [] x.t = "dict" -> \A k \in DOMAIN x.v : JsonSerializable(x.v[k])
      [] OTHER -> TRUE

RECURSIVE JsonValue(_)
JsonValue(x) ==
    CASE x.t \in {"list", "tuple"} ->
            List([i \in DOMAIN x.v |-> JsonValue(x.v[i])])
      [] x.t = "dict" -> Dict([k \in DOMAIN x.v |-> JsonValue(x.v[k])])
      [] OTHER -> x

JsonLoadsDumps(d) ==
    IF \A k \in DOMAIN d : JsonSerializable(d[k])
    THEN Ok([k \in DOMAIN d |-> JsonValue(d[k])])
    ELSE Raise("TypeError")

(***************************************************************************)
(* Ed25519 keys (crypto_utils.py).  Key pair i has private key i and       *)
(* public key i; the raw public keys are those of RFC 8032's test vectors, *)
(* given by their base64 text.                                             *)
(***************************************************************************)
KeyIds == {1, 2}

PrivKey(i) == [t |-> "Ed25519PrivateKey", id |-> i]
PubKey(i) == [t |-> "Ed25519PublicKey", id |-> i]
KeyBytes(kind, i, n) == [t |-> "bytes", of |-> kind, id |-> i, len |-> n]

Chars1 ==
    << "1","1","q","Y","A","Y","K","x","C","r","f","V","S","/","7","T",
       "y","W","Q","H","O","g","7","h","c","v","P","a","p","i","M","l",
       "r","w","I","a","a","P","c","H","U","R","o","=" >>
Chars2 ==
    << "P","U","A","X","w","+","h","D","i","V","q","S","t","w","q","n",
       "T","R","t","+","v","J","y","Y","L","M","8","u","x","J","a","M",
       "w","M","1","V","8","S","r","0","Z","g","w","=" >>

RECURSIVE Concat(_)
Concat(s) == IF s = <<>> THEN "" ELSE Head(s) \o Concat(Tail(s))

public_key_to_base64(pub) == IF pub.id = 1 THEN Chars1 ELSE Chars2

\* A key id cut one character short.
generate_key_id_short(pub) ==
    "key-" \o Concat(SubSeq(public_key_to_base64(pub), 1, 7))

generate_key_id(pub) ==
    "key-" \o Concat(SubSeq(public_key_to_base64(pub), 1, 8))

\* Ed25519 is deterministic (RFC 8032): a signature is a function of the
\* key and the message, and verifies only under the matching public key.
Ed25519Sign(priv, msg) == [t |-> "sig", signer |-> priv.id, msg |-> msg]
\* A verification that accepts the signature of any key.
VerifyAnySigner(pub, sig, msg) ==
    /\ sig.t = "sig"
    /\ sig.msg = msg
Ed25519Verify(pub, sig, msg) ==
    /\ sig.t = "sig"
    /\ sig.signer = pub.id
    /\ sig.msg = msg

SHA256(bytes) == [sha256 |-> bytes]

\* base64.b64decode of a proofValue: the signature bytes of a base64 text,
\* other bytes for any other str, binascii.Error on bad padding.
BadPadding == {"x"}
B64Decode(x) ==
    CASE x.t = "b64" -> Ok(x.v)
      [] x.t = "str" /\ x.v \in BadPadding -> Raise("binascii.Error")
      [] x.t = "str" -> Ok([t |-> "raw", of |-> x.v])
      [] OTHER -> Raise("TypeError")

private_key_from_bytes(b) ==
    IF b.len # 32 THEN Raise("ValueError") ELSE Ok(PrivKey(b.id))
public_key_from_bytes(b) ==
    IF b.len # 32 THEN Raise("ValueError") ELSE Ok(PubKey(b.id))

(***************************************************************************)
(* canonicalize_jsonld: pyld.jsonld.normalize(URDNA2015, N-Quads).         *)
(* The document is expanded against its @context and turned into RDF: a    *)
(* key yields triples only if the active context maps it to an IRI (a term *)
(* definition, or @vocab); any other key is dropped by expansion.  The     *)
(* N-Quads text is given by its set of triples.                            *)
(***************************************************************************)
\* The keys that start with "@".
AtKeys ==
    { "@id", "@type", "@context", "@base", "@vocab", "@value", "@language",
      "@graph", "@container", "@version", "@index", "@list", "@set",
      "@reverse", "@import", "@protected", "@nest", "@prefix", "@foo" }
StartsWithAt(k) == k \in AtKeys

\* Compact IRIs, split at the colon.
Curies ==
    [ c \in { "schema:name", "schema:note", "schema:identifier",
              "xsd:string" } |->
        CASE c = "schema:name" -> <<"schema", "name">>
          [] c = "schema:note" -> <<"schema", "note">>
          [] c = "schema:identifier" -> <<"schema", "identifier">>
          [] c = "xsd:string" -> <<"xsd", "string">> ]

\* The document loader: the remote contexts that can be dereferenced.
SchemaOrgUrl == "https://schema.org/"
DeadUrl == "https://example.org/context.jsonld"
LoadRemoteContext(url) ==
    IF url = SchemaOrgUrl
    THEN Ok([k \in {"name"} |-> Str("http://schema.org/name")])
    ELSE Raise("JsonLdError")

\* The context value of a document, merged into one local context
\* (definitions of later entries of a sequence override earlier ones).
RECURSIVE MergeContexts(_)
MergeContexts(items) ==
    IF items = <<>> THEN Ok(EmptyDict)
    ELSE LET n == Len(items)
             rest == MergeContexts(SubSeq(items, 1, n - 1))
             x == items[n]
             one == CASE x.t = "dict" -> Ok(x.v)
                      [] x.t = "str" -> LoadRemoteContext(x.v)
                      [] x.t = "none" -> Ok(EmptyDict)
                      [] OTHER -> Raise("JsonLdError")
         IN  IF rest.ok /\ one.ok THEN Ok(DictMerge(rest.val, one.val))
             ELSE Raise("JsonLdError")

ActiveContext(document) ==
    IF "@context" \notin DOMAIN document THEN Ok(EmptyDict)
    ELSE LET cv == document["@context"]
         IN  IF cv.t = "list" THEN MergeContexts(cv.v)
             ELSE MergeContexts(<<cv>>)

\* An IRI or compact IRI, expanded with the prefixes the context defines.
ExpandIri(c, s) ==
    IF s \in DOMAIN Curies
       /\ Curies[s][1] \in DOMAIN c
       /\ c[Curies[s][1]].t = "str"
    THEN c[Curies[s][1]].v \o Curies[s][2]
    ELSE s

\* A term's definition in the active context is usable.
TermDefined(c, k) ==
    /\ k \in DOMAIN c
    /\ ~StartsWithAt(k)
    /\ \/ c[k].t = "str"
       \/ c[k].t = "dict" /\ "@id" \in DOMAIN c[k].v /\ c[k].v["@id"].t = "str"

\* The context is one the processor accepts.
ContextWellFormed(c) ==
    \A k \in DOMAIN c : StartsWithAt(k) \/ TermDefined(c, k)

\* The IRI a key expands to, "" when expansion drops the key.
PropertyIri(c, k) ==
    IF StartsWithAt(k) THEN ""
    ELSE IF TermDefined(c, k)
         THEN IF c[k].t = "str" THEN ExpandIri(c, c[k].v)
              ELSE ExpandIri(c, c[k].v["@id"].v)
         ELSE IF "@vocab" \in DOMAIN c /\ c["@vocab"].t = "str"
              THEN c["@vocab"].v \o k
              ELSE ""

\* The datatype a term coerces its values to, "" when it has none.
TermType(c, k) ==
    IF TermDefined(c, k) /\ c[k].t = "dict" /\ "@type" \in DOMAIN c[k].v
       /\ c[k].v["@type"].t = "str"
    THEN ExpandIri(c, c[k].v["@type"].v)
    ELSE ""

\* The node a document's triples are about.
BlankRoot == "_:b0"
SubjectOf(c, node) ==
    IF "@id" \in DOMAIN node /\ node["@id"].t = "str"
    THEN (IF "@base" \in DOMAIN c /\ c["@base"].t = "str"
          THEN c["@base"].v ELSE "") \o node["@id"].v
    ELSE BlankRoot

IsScalar(x) == x.t \in {"str", "b64", "num", "bool"}

\* The triples of the scalar-valued keys of a node.
ScalarTriples(c, subj, node) ==
    { <<subj, PropertyIri(c, k), node[k], TermType(c, k)>> :
        k \in { j \in DOMAIN node : IsScalar(node[j]) /\ PropertyIri(c, j) # "" } }

\* The triples of the keys holding a nested node (such as proof): the link
\* to the nested blank node, and the nested node's own triples.
NestedTriples(c, subj, node) ==
    UNION { { <<subj, PropertyIri(c, k), Str("_:" \o k), "node">> }
            \cup ScalarTriples(c, "_:" \o k, node[k].v) :
        k \in { j \in DOMAIN node : node[j].t = "dict" /\ PropertyIri(c, j) # "" } }

ToRdf(c, document) ==
    ScalarTriples(c, SubjectOf(c, document), document)
      \cup NestedTriples(c, SubjectOf(c, document), document)

canonicalize_jsonld(document) ==
    LET c == ActiveContext(document)
    IN  IF c.ok /\ ContextWellFormed(c.val)
        THEN Ok([nquads |-> ToRdf(c.val, document)])
        ELSE Raise("ValueError")

(***************************************************************************)
(* signatures.py                                                           *)
(***************************************************************************)
ProofType == "Ed25519Signature2020"
DefaultPurpose == "assertionMethod"
\* The marker of an argument the caller leaves out.
Omitted == [t |-> "omitted", v |-> "omitted"]

\* datetime.now(timezone.utc).isoformat().replace('+00:00', 'Z')
IsoFormat(now) == "2025-07-15T14:30:00.00000" \o ToString(now) \o "Z"

\* A proof object that is always stamped with the current time.
create_proof_stamped(verification_method, created, proof_purpose, now) ==
    [ k \in {"type", "created", "verificationMethod", "proofPurpose"} |->
        CASE k = "type" -> Str(ProofType)
          [] k = "created" -> Str(IsoFormat(now))
          [] k = "verificationMethod" -> verification_method
          [] k = "proofPurpose" ->
                IF proof_purpose = Omitted THEN Str(DefaultPurpose)
                ELSE proof_purpose ]

create_proof_object(verification_method, created, proof_purpose, now) ==
    [ k \in {"type", "created", "verificationMethod", "proofPurpose"} |->
        CASE k = "type" -> Str(ProofType)
          [] k = "created" ->
                IF created.t = "none" THEN Str(IsoFormat(now)) ELSE created
          [] k = "verificationMethod" -> verification_method
          [] k = "proofPurpose" ->
                IF proof_purpose = Omitted THEN Str(DefaultPurpose)
                ELSE proof_purpose ]

\* A signer that signs the canonical bytes themselves, not their digest.
SignUnhashed(doc_with_proof, proof, private_key) ==
    LET canonical == canonicalize_jsonld(doc_with_proof)
    IN  IF ~canonical.ok THEN Raise("ValueError")
        ELSE LET signature_bytes == Ed25519Sign(private_key, canonical.val)
                 full == DictSet(proof, "proofValue", B64Str(signature_bytes))
             IN  Ok(DictSet(doc_with_proof, "proof", Dict(full)))

\* Lines 122-139: canonicalize, hash, sign, encode, attach proofValue.
SignCanonical(doc_with_proof, proof, private_key) ==
    LET canonical == canonicalize_jsonld(doc_with_proof)
    IN  IF ~canonical.ok THEN Raise("ValueError")
        ELSE LET signature_bytes ==
                     Ed25519Sign(private_key, SHA256(canonical.val))
                 full == DictSet(proof, "proofValue", B64Str(signature_bytes))
             IN  Ok(DictSet(doc_with_proof, "proof", Dict(full)))

\* A signer that keeps the proof it finds inside the proof it writes.
sign_nesting_proof(document, private_key, verification_method, created, proof_purpose, now) ==
    LET copied == JsonLoadsDumps(document)
    IN  IF ~copied.ok THEN Raise("TypeError")
        ELSE LET doc_copy == DictDel(copied.val, "proof")
                 vm == IF verification_method.t = "none"
                       THEN Str(generate_key_id(PubKey(private_key.id)))
                       ELSE verification_method
                 fresh == create_proof_object(vm, created, proof_purpose, now)
                 proof == IF "proof" \in DOMAIN copied.val
                          THEN DictSet(fresh, "proof", copied.val["proof"])
                          ELSE fresh
                 doc_with_proof == DictSet(doc_copy, "proof", Dict(proof))
             IN  SignCanonical(doc_with_proof, proof, private_key)
sign_jsonld_document(document, private_key, verification_method, created, proof_purpose, now) ==
    LET copied == JsonLoadsDumps(document)
    IN  IF ~copied.ok THEN Raise("TypeError")
        ELSE LET doc_copy == DictDel(copied.val, "proof")
                 vm == IF verification_method.t = "none"
                       THEN Str(generate_key_id(PubKey(private_key.id)))
                       ELSE verification_method
                 proof == create_proof_object(vm, created, proof_purpose, now)
                 doc_with_proof == DictSet(doc_copy, "proof", Dict(proof))
             IN  SignCanonical(doc_with_proof, proof, private_key)

\* The body of verify's outer try block: a bool, or the exception raised.
VerifyBody(signed_document, public_key) ==
    IF "proof" \notin DOMAIN signed_document THEN Ok(FALSE)
    ELSE LET proof == signed_document["proof"]
         IN
         IF proof.t # "dict" THEN Raise("AttributeError")
         ELSE IF "type" \notin DOMAIN proof.v
                 \/ proof.v["type"] # Str(ProofType) THEN Ok(FALSE)
         ELSE IF "proofValue" \notin DOMAIN proof.v THEN Ok(FALSE)
         ELSE LET decoded == B64Decode(proof.v["proofValue"])
                  copied == JsonLoadsDumps(signed_document)
              IN
              IF ~decoded.ok THEN Ok(FALSE)
              ELSE IF ~copied.ok THEN Raise("TypeError")
              ELSE LET proof_copy == DictDel(copied.val["proof"].v, "proofValue")
                       doc_copy == DictSet(copied.val, "proof", Dict(proof_copy))
                       canonical == canonicalize_jsonld(doc_copy)
                   IN
                   IF ~canonical.ok THEN Raise("ValueError")
                   ELSE IF public_key.t # "Ed25519PublicKey"
                        THEN Raise("AttributeError")
                        ELSE Ok(Ed25519Verify(public_key, decoded.val,
                                              SHA256(canonical.val)))

\* A verify without the outer except clause.
Propagate(r) == r
\* except Exception: return False
CatchAll(r) == IF r.ok THEN r ELSE Ok(FALSE)

verify_jsonld_document(signed_document, public_key) ==
    CatchAll(VerifyBody(signed_document, public_key))

extract_proof_metadata(signed_document) ==
    IF "proof" \notin DOMAIN signed_document THEN Ok(PyNone)
    ELSE LET proof == signed_document["proof"]
         IN  IF proof.t # "dict" THEN Raise("AttributeError")
             ELSE Ok(Dict(DictDel(proof.v, "proofValue")))

\* A remove_proof that deletes proof only where it is a proof object.
remove_proof_object(signed_document) ==
    LET copied == JsonLoadsDumps(signed_document)
    IN  IF ~copied.ok THEN copied
        ELSE IF "proof" \in DOMAIN copied.val /\ copied.val["proof"].t = "dict"
             THEN Ok(DictDel(copied.val, "proof"))
             ELSE copied

remove_proof(signed_document) ==
    LET copied == JsonLoadsDumps(signed_document)
    IN  IF ~copied.ok THEN copied ELSE Ok(DictDel(copied.val, "proof"))

(***************************************************************************)
(* The caller's document after a call.  A name bound by                    *)
(* json.loads(json.dumps(x)) or by x.copy() is a new object ("copy"); a    *)
(* name bound by plain assignment is the caller's object ("same"), and     *)
(* only then does a del through the name change the caller's document.     *)
(***************************************************************************)
DelIn(x, binding, key) ==
    IF binding = "same" THEN DictDel(x, key) ELSE x
DelInProof(x, binding, key) ==
    IF binding = "same"
    THEN DictSet(x, "proof", Dict(DictDel(x["proof"].v, key)))
    ELSE x

\* Lines 104-108: doc_copy is the json copy; del doc_copy["proof"].
document_after_sign(document) ==
    IF JsonLoadsDumps(document).ok /\ "proof" \in DOMAIN document
    THEN DelIn(document, "copy", "proof")
    ELSE document

\* Lines 181-184: proof_copy is a copy of the proof of the json copy;
\* del proof_copy["proofValue"].
document_after_verify(signed_document) ==
    IF /\ "proof" \in DOMAIN signed_document
       /\ signed_document["proof"].t = "dict"
       /\ "type" \in DOMAIN signed_document["proof"].v
       /\ signed_document["proof"].v["type"] = Str(ProofType)
       /\ "proofValue" \in DOMAIN signed_document["proof"].v
       /\ B64Decode(signed_document["proof"].v["proofValue"]).ok
       /\ JsonLoadsDumps(signed_document).ok
    THEN DelInProof(signed_document, "copy", "proofValue")
    ELSE signed_document

\* An extract_proof_metadata whose metadata is the proof object itself.
metadata_in_place(signed_document) ==
    IF /\ "proof" \in DOMAIN signed_document
       /\ signed_document["proof"].t = "dict"
       /\ "proofValue" \in DOMAIN signed_document["proof"].v
    THEN DelInProof(signed_document, "same", "proofValue")
    ELSE signed_document

\* Lines 218-222: metadata = proof.copy(); del metadata["proofValue"].
document_after_extract_proof_metadata(signed_document) ==
    IF /\ "proof" \in DOMAIN signed_document
       /\ signed_document["proof"].t = "dict"
       /\ "proofValue" \in DOMAIN signed_document["proof"].v
    THEN DelInProof(signed_document, "copy", "proofValue")
    ELSE signed_document

\* Lines 236-238: doc_copy is the json copy; del doc_copy["proof"].
document_after_remove_proof(signed_document) ==
    IF JsonLoadsDumps(signed_document).ok /\ "proof" \in DOMAIN signed_document
    THEN DelIn(signed_document, "copy", "proof")
    ELSE signed_document

(***************************************************************************)
(* validation.py: the context grammar validator.                           *)
(***************************************************************************)
AllowedTermKeywords ==
    { "@id", "@type", "@language", "@container", "@context", "@reverse",
      "@nest", "@prefix", "@protected" }
ValidContainers == {"@list", "@set", "@index", "@language", "@id", "@type"}
RedefinableKeywords ==
    { "@id", "@type", "@value", "@language", "@index", "@list", "@set",
      "@reverse", "@graph", "@context" }
\* The strings that start with http:// or https://.
HttpIris ==
    { "https://schema.org/", "https://example.org/context.jsonld",
      "https://example.org/", "https://example.org/vocab/",
      "http://schema.org/name" }
StartsWithHttp(s) == s \in HttpIris

\* A validate_term_definition that does not ask for @id.
validate_term_without_id(v) ==
    /\ (DOMAIN v) \subseteq AllowedTermKeywords
    /\ "@type" \in DOMAIN v => v["@type"].t \in {"str", "b64"}
    /\ "@container" \in DOMAIN v =>
          \/ v["@container"].t = "str" /\ v["@container"].v \in ValidContainers
          \/ /\ v["@container"].t = "list"
             /\ \A i \in DOMAIN v["@container"].v :
                   /\ v["@container"].v[i].t = "str"
                   /\ v["@container"].v[i].v \in ValidContainers
    /\ "@language" \in DOMAIN v => v["@language"].t \in {"str", "b64"}
\* ContextTerm.validate_term_definition: TRUE when nothing is raised.
validate_term_definition(v) ==
    /\ "@id" \in DOMAIN v
    /\ (DOMAIN v) \subseteq AllowedTermKeywords
    /\ "@type" \in DOMAIN v => v["@type"].t \in {"str", "b64"}
    /\ "@container" \in DOMAIN v =>
          \/ v["@container"].t = "str" /\ v["@container"].v \in ValidContainers
          \/ /\ v["@container"].t = "list"
             /\ \A i \in DOMAIN v["@container"].v :
                   /\ v["@container"].v[i].t = "str"
                   /\ v["@container"].v[i].v \in ValidContainers
    /\ "@language" \in DOMAIN v => v["@language"].t \in {"str", "b64"}

\* One key of a context object is acceptable.
ContextEntryValid(key, value) ==
    IF StartsWithAt(key) /\ key \notin RedefinableKeywords
    THEN CASE key = "@version" -> value.t = "num" /\ value.v = "1.1"
           [] key \in {"@base", "@vocab", "@import"} -> value.t \in {"str", "b64"}
           [] key = "@protected" -> value.t = "bool"
           [] OTHER -> FALSE
    ELSE \/ value.t \in {"str", "b64"}
         \/ value.t = "dict" /\ validate_term_definition(value.v)

_validate_context_object(context_obj) ==
    \A key \in DOMAIN context_obj : ContextEntryValid(key, context_obj[key])

\* JsonLDContext.validate_context, with pydantic's check of the field type
\* Union[Dict[str, Any], List[Union[Dict[str, Any], str]]]: before the
\* validator runs, a tuple is taken as a list and a bytes element of the
\* list as the string it encodes; any other value is refused.
JsonLDContext_validate_context(v) ==
    CASE v.t \in {"list", "tuple"} ->
            \A i \in DOMAIN v.v :
                \/ v.v[i].t \in {"str", "bytes"} /\ StartsWithHttp(v.v[i].v)
                \/ v.v[i].t = "dict" /\ _validate_context_object(v.v[i].v)
      [] v.t = "dict" -> _validate_context_object(v.v)
      [] OTHER -> FALSE

validate_context(context_data) ==
    IF "@context" \notin DOMAIN context_data THEN Raise("ValueError")
    ELSE IF JsonLDContext_validate_context(context_data["@context"])
         THEN Ok(PyNone)
         ELSE Raise("ValueError")

(***************************************************************************)
(* models.py: Term, JsonLDModel.                                           *)
(***************************************************************************)
\* Term(iri, type_, container, language): the field's jsonld_meta; "" is
\* None.  A field declared without Term has no jsonld_meta attribute.
Term(iri, type_, container, language) ==
    [ annotated |-> TRUE, iri |-> iri, type |-> type_,
      container |-> container, language |-> language ]
NoMeta ==
    [ annotated |-> FALSE, iri |-> "", type |-> "", container |-> "",
      language |-> "" ]

\* A field of a model class: its name, its alias ("" when it has none), the
\* key the framework reads and writes it under with by_alias=True, and its
\* jsonld_meta.
Field(name, alias, ser, meta) ==
    [name |-> name, alias |-> alias, ser |-> ser, meta |-> meta]

\* The model classes.  SubModel derives from Model without adding fields.
Classes == {"Model", "SubModel", "Other"}
Bases(cls) == IF cls = "SubModel" THEN <<"SubModel", "Model">> ELSE <<cls>>

\* An attribute configure_jsonld has not set on a class.
Unset == [t |-> "unset", v |-> "unset"]
NoConfig ==
    [base |-> Unset, vocab |-> Unset, remote_contexts |-> Unset, prefixes |-> Unset]

\* getattr(cls, attr) along the class's bases; Unset when hasattr is false.
RECURSIVE LookupAttr(_, _, _)
LookupAttr(config, bases, attr) ==
    IF bases = <<>> THEN Unset
    ELSE IF config[Head(bases)][attr] # Unset THEN config[Head(bases)][attr]
         ELSE LookupAttr(config, Tail(bases), attr)
ClassAttr(config, cls, attr) == LookupAttr(config, Bases(cls), attr)

\* Python truth of a configured value.
Truthy(x) ==
    CASE x.t \in {"unset", "none"} -> FALSE
      [] x.t = "str" -> x.v # ""
      [] x.t = "list" -> x.v # <<>>
      [] x.t = "dict" -> DOMAIN x.v # {}
      [] OTHER -> TRUE

\* A configure_jsonld that stores every argument, None included.
configure_replace(config, cls, base, vocab, remote_contexts, prefixes) ==
    [ config EXCEPT
        ![cls] = [ base |-> IF base.t # "none" THEN base ELSE Unset,
                   vocab |-> IF vocab.t # "none" THEN vocab ELSE Unset,
                   remote_contexts |->
                       IF remote_contexts.t # "none" THEN remote_contexts
                       ELSE Unset,
                   prefixes |->
                       IF prefixes.t # "none" THEN prefixes ELSE Unset ] ]

\* configure_jsonld: every argument that is not None is stored on cls.
configure_jsonld(config, cls, base, vocab, remote_contexts, prefixes) ==
    [ config EXCEPT
        ![cls] = [ base |-> IF base.t # "none" THEN base ELSE @.base,
                   vocab |-> IF vocab.t # "none" THEN vocab ELSE @.vocab,
                   remote_contexts |->
                       IF remote_contexts.t # "none" THEN remote_contexts
                       ELSE @.remote_contexts,
                   prefixes |->
                       IF prefixes.t # "none" THEN prefixes ELSE @.prefixes ] ]

\* term_name = field_info.alias or field_name
TermName(f) == IF f.alias # "" THEN f.alias ELSE f.name

\* Lines 138-147: the term definition of an annotated field.
TermDefinition(meta) ==
    [ k \in {"@id"}
            \cup (IF meta.type # "" THEN {"@type"} ELSE {})
            \cup (IF meta.container # "" THEN {"@container"} ELSE {})
            \cup (IF meta.language # "" THEN {"@language"} ELSE {}) |->
        CASE k = "@id" -> Str(meta.iri)
          [] k = "@type" -> Str(meta.type)
          [] k = "@container" -> Str(meta.container)
          [] k = "@language" -> Str(meta.language) ]

\* A loop that writes every field with a descriptor, keyword names included.
EmittedIfAnnotated(f) == f.meta.annotated
\* A loop that does not skip the fields without jsonld_meta.
EmittedUnlessKeyword(f) == ~StartsWithAt(TermName(f))

\* Lines 131-136: the field is written into the local context.
FieldEmitted(f) == f.meta.annotated /\ ~StartsWithAt(TermName(f))

\* Lines 124-149: the loop over model_fields, in declaration order.
RECURSIVE AddFieldTerms(_, _)
AddFieldTerms(local_context, fs) ==
    IF fs = <<>> THEN local_context
    ELSE LET f == Head(fs)
         IN  AddFieldTerms(
                 IF FieldEmitted(f)
                 THEN DictSet(local_context, TermName(f),
                              Dict(TermDefinition(f.meta)))
                 ELSE local_context,
                 Tail(fs))

\* Lines 111-122: @base, @vocab and the prefix map.
SeedContext(config, cls) ==
    LET base == ClassAttr(config, cls, "base")
        vocab == ClassAttr(config, cls, "vocab")
        prefixes == ClassAttr(config, cls, "prefixes")
        c0 == IF Truthy(base) THEN [k \in {"@base"} |-> base] ELSE EmptyDict
        c1 == IF Truthy(vocab) THEN DictSet(c0, "@vocab", vocab) ELSE c0
    IN  IF Truthy(prefixes) THEN DictMerge(c1, prefixes.v) ELSE c1

LocalContext(config, cls, fs) == AddFieldTerms(SeedContext(config, cls), fs)

\* A context that puts the local context first.
ContextLocalFirst(config, cls, fs) ==
    LET remote == ClassAttr(config, cls, "remote_contexts")
    IN  IF Truthy(remote)
        THEN List(<<Dict(LocalContext(config, cls, fs))>> \o remote.v)
        ELSE Dict(LocalContext(config, cls, fs))

\* Lines 151-157: remote contexts first, the local context last.
ContextValue(config, cls, fs) ==
    LET remote == ClassAttr(config, cls, "remote_contexts")
    IN  IF Truthy(remote)
        THEN List(remote.v \o <<Dict(LocalContext(config, cls, fs))>>)
        ELSE Dict(LocalContext(config, cls, fs))

\* An export_context that returns what it built without validating it.
export_unvalidated(config, cls, fs) ==
    Ok([k \in {"@context"} |-> ContextValue(config, cls, fs)])

export_context(config, cls, fs) ==
    LET result == [k \in {"@context"} |-> ContextValue(config, cls, fs)]
    IN  IF validate_context(result).ok THEN Ok(result) ELSE Raise("ValueError")

(***************************************************************************)
(* models.py: SignableJsonLDModel.                                         *)
(***************************************************************************)
\* instance.model_dump(by_alias=True): each field under its key, in order.
RECURSIVE model_dump(_, _)
model_dump(fs, instance) ==
    IF fs = <<>> THEN EmptyDict
    ELSE LET n == Len(fs)
         IN  DictSet(model_dump(SubSeq(fs, 1, n - 1), instance),
                     fs[n].ser, instance[fs[n].name])

\* cls(**data): extra keys are forbidden and every field is required.
SerOf(fs, name) == fs[CHOOSE i \in DOMAIN fs : fs[i].name = name].ser
Construct(fs, data) ==
    IF DOMAIN data = { fs[i].ser : i \in DOMAIN fs }
    THEN Ok([ name \in { fs[i].name : i \in DOMAIN fs } |->
                data[SerOf(fs, name)] ])
    ELSE Raise("ValidationError")

\* Lines 283-287 and 331-335: a key given as raw bytes is converted, any
\* other object that is not an Ed25519 key is refused.
PrivateKeyArg(private_key) ==
    CASE private_key.t = "bytes" -> private_key_from_bytes(private_key)
      [] private_key.t = "Ed25519PrivateKey" -> Ok(private_key)
      [] OTHER -> Raise("ValueError")
PublicKeyArg(public_key) ==
    CASE public_key.t = "bytes" -> public_key_from_bytes(public_key)
      [] public_key.t = "Ed25519PublicKey" -> Ok(public_key)
      [] OTHER -> Raise("ValueError")

\* Lines 289-300: {"@context": context, **model_data}
ModelDocument(context, model_data) ==
    DictMerge([k \in {"@context"} |-> context], model_data)

Signable_sign(config, cls, fs, instance, private_key, verification_method, created, proof_purpose, now) ==
    LET key == PrivateKeyArg(private_key)
        context_doc == export_context(config, cls, fs)
    IN  IF ~key.ok THEN key
        ELSE IF ~context_doc.ok THEN context_doc
        ELSE sign_jsonld_document(
                 ModelDocument(context_doc.val["@context"],
                               model_dump(fs, instance)),
                 key.val, verification_method, created, proof_purpose, now)

Signable_verify(signed_document, public_key) ==
    LET key == PublicKeyArg(public_key)
    IN  IF ~key.ok THEN key
        ELSE verify_jsonld_document(signed_document, key.val)

\* An extract_data that leaves @context in.
extract_with_context(signed_document) == remove_proof(signed_document)

extract_data(signed_document) ==
    LET doc_without_proof == remove_proof(signed_document)
    IN  IF ~doc_without_proof.ok THEN doc_without_proof
        ELSE Ok(DictDel(doc_without_proof.val, "@context"))

from_signed_document(fs, signed_document) ==
    LET data == extract_data(signed_document)
    IN  IF ~data.ok THEN data ELSE Construct(fs, data.val)

(***************************************************************************)
(* The inputs the calls are tried on.                                      *)
(***************************************************************************)
Times == 0 .. MaxClock

NameIri == "https://schema.org/name"
\* {"name": "https://schema.org/name"}, the context of the tests.
NameContext == [k \in {"name"} |-> Str(NameIri)]
\* A context that also maps proof and the keys of the proof object.
ProofContext ==
    [ k \in {"name", "proof", "type", "created", "verificationMethod",
             "proofPurpose"} |->
        IF k = "name" THEN Str(NameIri) ELSE Str("https://w3id.org/security#" \o k) ]
VocabContext == [k \in {"@vocab"} |-> Str("https://example.org/vocab/")]

StaleProof ==
    [ k \in {"type", "created", "proofValue"} |->
        CASE k = "type" -> Str(ProofType)
          [] k = "created" -> Str("2020-01-01T00:00:00Z")
          [] k = "proofValue" -> Str("AAAA") ]

Doc(context, extra) ==
    DictMerge([k \in {"@context", "name"} |->
                  IF k = "@context" THEN context ELSE Str("Alice")], extra)

Documents ==
    { Doc(Dict(NameContext), EmptyDict),
      Doc(Dict(NameContext), [k \in {"note"} |-> Str("memo")]),
      Doc(Dict(NameContext), [k \in {"@id"} |-> Str("alice")]),
      Doc(Dict(ProofContext), EmptyDict),
      Doc(Dict(VocabContext), [k \in {"note"} |-> Str("memo")]),
      Doc(List(<<Str(SchemaOrgUrl)>>), EmptyDict),
      Doc(List(<<Str(DeadUrl), Dict(NameContext)>>),
          [k \in {"proof"} |-> Dict(StaleProof)]),
      Doc(Dict(NameContext), [k \in {"proof"} |-> Dict(StaleProof)]),
      Doc(Dict(NameContext), [k \in {"proof"} |-> Str("seal")]),
      [k \in {"name"} |-> Str("Alice")] }

\* The (verification_method, created, proof_purpose) of a sign call.
SignArgs ==
    { [vm |-> PyNone, created |-> PyNone, pp |-> Omitted],
      [vm |-> PyNone, created |-> Str("2025-07-15T14:30:00Z"), pp |-> Omitted],
      [vm |-> Str("custom-key-123"), created |-> Str("2025-07-15T14:30:00Z"),
       pp |-> Str("authentication")] }

PrivateKeyObjects == { PrivKey(i) : i \in KeyIds }
PublicKeyObjects == { PubKey(i) : i \in KeyIds }
\* What a caller may pass as a key to SignableJsonLDModel.sign / verify.
PrivateKeyInputs ==
    { PrivKey(1), KeyBytes("private", 2, 32), KeyBytes("private", 1, 7),
      Str("invalid-key") }
PublicKeyInputs ==
    { PubKey(2), KeyBytes("public", 1, 32), KeyBytes("public", 1, 7),
      Str("invalid-key") }

\* The fields of the model classes.
FName == Field("name", "", "name", Term("schema:name", "", "", ""))
FEmail == Field("email", "", "email", Term("schema:email", "xsd:string", "", ""))
FNote == Field("note", "", "note", NoMeta)
\* Term hands alias to FieldInfo, which sets no serialization alias: the
\* field is dumped under its name.
FId ==
    Field("identifier", "@id", "identifier", Term("schema:identifier", "@id", "", ""))
FKind == Field("kind", "@type", "@type", Term("schema:additionalType", "", "", ""))
FLabel == Field("label", "title", "title", Term("schema:title", "", "", "en"))
FTags == Field("tags", "", "tags", Term("schema:keywords", "", "@set", ""))
FAliasNote == Field("remark", "note", "note", Term("schema:comment", "", "", ""))
FBadContainer == Field("bag", "", "bag", Term("schema:bag", "", "@bag", ""))
FProof == Field("proof", "", "proof", Term("schema:note", "", "", ""))
FContext == Field("context", "@context", "@context", NoMeta)

\* Signable model classes and their instances: the value of the last field
\* varies, the other fields hold "Alice".
InstanceOf(fs, x) ==
    [ name \in { fs[i].name : i \in DOMAIN fs } |->
        IF name = fs[Len(fs)].name THEN x ELSE Str("Alice") ]
SignableInputs ==
    { [fs |-> <<FName, FEmail>>, x |-> Str("alice@example.com")],
      [fs |-> <<FName, FEmail>>, x |-> Tuple(<<Str("a"), Str("b")>>)],
      [fs |-> <<FName, FEmail>>, x |-> PyObj("datetime")],
      [fs |-> <<FName, FNote>>, x |-> Str("memo")],
      [fs |-> <<FId, FName>>, x |-> Str("Alice")],
      [fs |-> <<FName, FProof>>, x |-> Str("seal")],
      [fs |-> <<FName, FContext>>, x |-> Str("https://schema.org/")] }

\* The configuration of the signable classes of the tests.
TestPrefixes ==
    Dict([ k \in {"schema", "xsd"} |->
             IF k = "schema" THEN Str("https://schema.org/")
             ELSE Str("http://www.w3.org/2001/XMLSchema#") ])
TestConfig ==
    [ c \in Classes |->
        IF c = "Model"
        THEN [ base |-> Str("https://example.org/"), vocab |-> Unset,
               remote_contexts |-> Unset, prefixes |-> TestPrefixes ]
        ELSE NoConfig ]

NoCall == [op |-> "none", arg |-> PyNone, out |-> Ok(PyNone)]
NoSign ==
    [ via |-> "none", key |-> PyNone,
      args |-> [vm |-> PyNone, created |-> PyNone, pp |-> Omitted],
      now |-> 0, out |-> Raise("none") ]

NoTamper == [in |-> "none", key |-> "none"]

(***************************************************************************)
(* The signing pipeline as a state machine: a caller signs a document or a *)
(* model instance, may change the signed document, and verifies, strips or *)
(* reads it.                                                               *)
(***************************************************************************)
Init ==
    /\ \/ /\ callerDoc \in Documents
          /\ classFields = <<>>
          /\ callerInstance = EmptyDict
       \/ \E m \in SignableInputs :
             /\ callerDoc = EmptyDict
             /\ classFields = m.fs
             /\ callerInstance = InstanceOf(m.fs, m.x)
    /\ held = callerDoc
    /\ sig1 = NoSign
    /\ tampered = NoTamper
    /\ last = NoCall
    /\ cfg = TestConfig
    /\ nconf = 0

\* held is what the latest sign call returned, unchanged.
Fresh == sig1.out.ok /\ held = sig1.out.val

\* The caller is still preparing the document: a run ends with the call whose
\* result it inspects (a call that only reads, or a sign call that raised).
Preparing ==
    \/ last.op \in {"none", "tamper"}
    \/ last.op = "sign" /\ last.out.ok

\* A sign call returned (or raised) out. sig1 is the call whose result the
\* caller holds; now is the clock reading it took, kept as 0 when created was
\* given.
Signed(via, key, a, now, out, after) ==
    /\ Preparing
    /\ callerDoc' = after
    /\ sig1' = IF out.ok
               THEN [ via |-> via, key |-> key, args |-> a,
                      now |-> IF a.created.t = "none" THEN now ELSE 0,
                      out |-> out ]
               ELSE sig1
    /\ held' = IF out.ok THEN out.val ELSE held
    /\ tampered' = IF out.ok THEN NoTamper ELSE tampered
    /\ last' = [op |-> "sign", arg |-> key, out |-> out]
    /\ UNCHANGED <<classFields, callerInstance, cfg, nconf>>

\* sign_jsonld_document on the caller's document.
SignDocument ==
    \E key \in PrivateKeyObjects, a \in SignArgs, now \in Times :
        /\ classFields = <<>>
        /\ Signed("document", key, a, now,
                  sign_jsonld_document(callerDoc, key, a.vm, a.created, a.pp, now),
                  document_after_sign(callerDoc))

\* sign_jsonld_document on a document that is already signed.
SignAgain ==
    \E key \in PrivateKeyObjects, a \in SignArgs, now \in Times :
        /\ Fresh
        /\ Signed("again", key, a, now,
                  sign_jsonld_document(held, key, a.vm, a.created, a.pp, now),
                  callerDoc)

\* SignableJsonLDModel.sign on the caller's instance.
ModelSign ==
    \E key \in PrivateKeyInputs, a \in SignArgs, now \in Times :
        /\ classFields # <<>>
        /\ Signed("model", key, a, now,
                  Signable_sign(cfg, "Model", classFields, callerInstance, key,
                                a.vm, a.created, a.pp, now),
                  callerDoc)

\* Another value than x.
Other(x) == IF x = Str("Mallory") THEN Str("Eve") ELSE Str("Mallory")

\* The fields of a signed document other than @context and proofValue.
ProofMetadataKeys == {"type", "created", "verificationMethod", "proofPurpose"}
TamperPaths(d) ==
    { [in |-> "payload", key |-> k] : k \in (DOMAIN d) \ {"@context", "proof"} }
      \cup { [in |-> "proof", key |-> k] : k \in ProofMetadataKeys }

TamperAt(d, path) ==
    IF path.in = "payload" THEN DictSet(d, path.key, Other(d[path.key]))
    ELSE DictSet(d, "proof",
                 Dict(DictSet(d["proof"].v, path.key,
                              Other(d["proof"].v[path.key]))))

\* Someone changes one field of the signed document.
Tamper ==
    \E path \in TamperPaths(held) :
        /\ Preparing
        /\ Fresh
        /\ held' = TamperAt(held, path)
        /\ tampered' = path
        /\ last' = [op |-> "tamper", arg |-> PyNone, out |-> Ok(PyNone)]
        /\ UNCHANGED <<callerDoc, classFields, callerInstance, sig1, cfg, nconf>>

\* Someone damages the proof, or puts in a value json cannot encode.
Damages ==
    { "proof:missing", "proof:str", "proofValue:missing", "proofValue:padding",
      "proofValue:other", "payload:datetime" }
DamageAt(d, how) ==
    CASE how = "proof:missing" -> DictDel(d, "proof")
      [] how = "proof:str" -> DictSet(d, "proof", Str("seal"))
      [] how = "proofValue:missing" ->
            DictSet(d, "proof", Dict(DictDel(d["proof"].v, "proofValue")))
      [] how = "proofValue:padding" ->
            DictSet(d, "proof", Dict(DictSet(d["proof"].v, "proofValue", Str("x"))))
      [] how = "proofValue:other" ->
            DictSet(d, "proof", Dict(DictSet(d["proof"].v, "proofValue", Str("AAAA"))))
      [] how = "payload:datetime" -> DictSet(d, "name", PyObj("datetime"))

Damage ==
    \E how \in Damages :
        /\ Preparing
        /\ Fresh
        /\ held' = DamageAt(held, how)
        /\ tampered' = [in |-> "damage", key |-> how]
        /\ last' = [op |-> "tamper", arg |-> PyNone, out |-> Ok(PyNone)]
        /\ UNCHANGED <<callerDoc, classFields, callerInstance, sig1, cfg, nconf>>

\* A call on held, which the call leaves as after.
Reads(op, arg, out, after) ==
    /\ Preparing
    /\ last' = [op |-> op, arg |-> arg, out |-> out]
    /\ held' = after
    /\ UNCHANGED <<callerDoc, classFields, callerInstance, sig1, tampered,
                   cfg, nconf>>

Verify ==
    \E public_key \in PublicKeyObjects \cup {Str("invalid-key")} :
        Reads("verify", public_key, verify_jsonld_document(held, public_key),
              document_after_verify(held))

ModelVerify ==
    \E public_key \in PublicKeyInputs :
        Reads("model_verify", public_key, Signable_verify(held, public_key),
              IF PublicKeyArg(public_key).ok THEN document_after_verify(held)
              ELSE held)

ExtractProofMetadata ==
    Reads("extract_proof_metadata", Dict(held), extract_proof_metadata(held),
          document_after_extract_proof_metadata(held))

ExtractData ==
    /\ classFields # <<>>
    /\ Reads("extract_data", Dict(held), extract_data(held),
             document_after_remove_proof(held))

FromSignedDocument ==
    /\ classFields # <<>>
    /\ Reads("from_signed_document", Dict(held),
             from_signed_document(classFields, held),
             document_after_remove_proof(held))

RemoveProof ==
    Reads("remove_proof", Dict(held), remove_proof(held),
          document_after_remove_proof(held))

Next ==
    \/ SignDocument
    \/ SignAgain
    \/ ModelSign
    \/ Tamper
    \/ Damage
    \/ Verify
    \/ ModelVerify
    \/ ExtractProofMetadata
    \/ ExtractData
    \/ FromSignedDocument
    \/ RemoveProof

Spec == Init /\ [][Next]_vars


(***************************************************************************)
(* The context compiler as a state machine: classes are configured, and    *)
(* their contexts are exported.                                            *)
(***************************************************************************)
\* The field declarations of the model classes.
ContextFields ==
    { <<FName, FEmail>>, <<FName, FNote>>, <<FId, FName>>, <<FKind, FName>>,
      <<FLabel, FTags>>, <<FAliasNote, FNote>>, <<FBadContainer>>,
      <<FName, FContext>>, <<FNote>> }

\* configure_jsonld calls; an argument that is not given is None.
ConfigCall(base, vocab, remote_contexts, prefixes) ==
    [ base |-> base, vocab |-> vocab, remote_contexts |-> remote_contexts,
      prefixes |-> prefixes ]
ConfigCalls ==
    { ConfigCall(Str("https://example.org/"), PyNone, PyNone, TestPrefixes),
      ConfigCall(PyNone, Str("https://schema.org/"), PyNone, PyNone),
      ConfigCall(PyNone, PyNone,
                 List(<<Str(SchemaOrgUrl),
                        Str("https://example.org/context.jsonld")>>), PyNone),
      ConfigCall(PyNone, PyNone,
                 List(<<Str("ftp://example.org/context.jsonld")>>), PyNone),
      ConfigCall(PyNone, PyNone, PyNone,
                 Dict([k \in {"note"} |-> Str("https://example.org/note#")])),
      ConfigCall(Str(""), PyNone, List(<<>>), PyNone),
      ConfigCall(PyNone, PyObj("object"), PyNone, PyNone) }

InitCtx ==
    /\ classFields \in ContextFields
    /\ cfg = [c \in Classes |-> NoConfig]
    /\ nconf = 0
    /\ last = NoCall
    /\ callerDoc = EmptyDict
    /\ callerInstance = EmptyDict
    /\ held = EmptyDict
    /\ sig1 = NoSign
    /\ tampered = NoTamper

Configure ==
    \E cls \in Classes, c \in ConfigCalls :
        /\ nconf < MaxConfigs
        /\ cfg' = configure_jsonld(cfg, cls, c.base, c.vocab, c.remote_contexts,
                                   c.prefixes)
        /\ nconf' = nconf + 1
        /\ last' = [ op |-> "configure_jsonld", arg |-> [cls |-> cls, call |-> c],
                     out |-> Ok(PyNone) ]
        /\ UNCHANGED <<callerDoc, classFields, callerInstance, held, sig1,
                       tampered>>

\* An export_context that keeps what it returned for a class and returns it
\* again on the next call for that class.
ExportContextCached ==
    \E cls \in Classes :
        LET out == IF cls \in DOMAIN held THEN Ok(held[cls].v)
                   ELSE export_context(cfg, cls, classFields)
        IN  /\ last' = [op |-> "export_context", arg |-> Str(cls), out |-> out]
            /\ held' = IF out.ok THEN DictSet(held, cls, Dict(out.val)) ELSE held
            /\ UNCHANGED <<callerDoc, classFields, callerInstance, sig1,
                           tampered, cfg, nconf>>
ExportContext ==
    \E cls \in Classes :
        /\ last' = [ op |-> "export_context", arg |-> Str(cls),
                     out |-> export_context(cfg, cls, classFields) ]
        /\ UNCHANGED <<callerDoc, classFields, callerInstance, held, sig1,
                       tampered, cfg, nconf>>

NextCtx ==
    \/ Configure
    \/ ExportContext

SpecCtx == InitCtx /\ [][NextCtx]_vars


(***************************************************************************)
(* exporters.py: the SHACL shape compiler.                                 *)
(***************************************************************************)
IdRef(iri) == Dict([k \in {"@id"} |-> Str(iri)])

\* A type annotation is [k, args], as typing.get_origin and typing.get_args
\* see it: Optional[T] is a typing.Union, `T | None` is a types.UnionType,
\* the class list has no origin.
get_origin(tp) ==
    IF tp.k \in {"list", "dict", "Union", "UnionType"} THEN tp.k ELSE "none"

\* name: annotation = Term(iri, ..., **kwargs), as model_fields holds it.
\* JsonLDFieldInfo hands kwargs to FieldInfo.__init__, which keeps the
\* validation constraints among them in its metadata and the other kwargs
\* as attributes of the field info.
ModelField(name, annotation, jsonld_meta, kwargs) ==
    LET ConstraintKwargs ==
            {"min_length", "max_length", "pattern", "ge", "gt", "le", "lt"}
    IN  [ name |-> name,
          info |-> [ jsonld_meta |-> jsonld_meta,
                     attrs |-> [k \in (DOMAIN kwargs) \ ConstraintKwargs |-> kwargs[k]],
                     metadata |-> [k \in (DOMAIN kwargs) \cap ConstraintKwargs |-> kwargs[k]],
                     annotation |-> annotation ] ]

\* A field info without default.
AlwaysRequired(field_info) == TRUE
is_required(field_info) == "default" \notin DOMAIN field_info.attrs

\* "" is None.
RECURSIVE _python_type_to_xsd(_)
_python_type_to_xsd(python_type) ==
    IF get_origin(python_type) = "list"
    THEN IF python_type.args # <<>>
         THEN _python_type_to_xsd(python_type.args[1])
         ELSE ""
    ELSE IF get_origin(python_type) = "dict" THEN ""
    ELSE CASE python_type.k = "str" -> "xsd:string"
           [] python_type.k = "int" -> "xsd:integer"
           [] python_type.k = "float" -> "xsd:double"
           [] python_type.k = "bool" -> "xsd:boolean"
           [] OTHER -> ""

_add_field_constraints(property_shape, field_info, field_type) ==
    LET \* if hasattr(field_info, a) and field_info.a is not None: shape[key] = field_info.a
        Copy(shape, key, a) ==
            IF a \in DOMAIN field_info.attrs /\ field_info.attrs[a] # PyNone
            THEN DictSet(shape, key, field_info.attrs[a])
            ELSE shape
        s1 == Copy(property_shape, "sh:maxLength", "max_length")
        s2 == Copy(s1, "sh:minLength", "min_length")
        s3 == Copy(s2, "sh:pattern", "pattern")
        n1 == Copy(property_shape, "sh:minInclusive", "ge")
        n2 == Copy(n1, "sh:minExclusive", "gt")
        n3 == Copy(n2, "sh:maxInclusive", "le")
        n4 == Copy(n3, "sh:maxExclusive", "lt")
        scalar == IF field_type.k = "str" THEN s3
                  ELSE IF field_type.k \in {"int", "float"} THEN n4
                  ELSE property_shape
        l1 == Copy(scalar, "sh:maxCount", "max_length")
    IN  IF get_origin(field_type) = "list" THEN Copy(l1, "sh:minCount", "min_length")
        ELSE scalar

\* Lines 114-164: the property shape of a field whose descriptor has an IRI.
ShapeOf(field_name, field_info, jsonld_meta, base_iri) ==
    LET p0 == [ k \in {"@id", "@type", "sh:path"} |->
                  CASE k = "@id" ->
                          Str(base_iri \o "shapes/" \o field_name \o "PropertyShape")
                    [] k = "@type" -> Str("sh:PropertyShape")
                    [] k = "sh:path" -> IdRef(jsonld_meta.iri) ]
        p1 == IF is_required(field_info)
              THEN DictSet(p0, "sh:minCount", [t |-> "int", v |-> 1])
              ELSE p0
        \* Optional[T] is taken as T
        annotation == field_info.annotation
        field_type ==
            IF get_origin(annotation) = "Union" /\ Len(annotation.args) = 2
               /\ \E i \in 1..2 : annotation.args[i].k = "NoneType"
            THEN IF annotation.args[2].k = "NoneType" THEN annotation.args[1]
                 ELSE annotation.args[2]
            ELSE annotation
        \* sh:nodeKind or sh:datatype
        xsd_type == _python_type_to_xsd(field_type)
        p2 == IF jsonld_meta.type # ""
              THEN IF jsonld_meta.type = "@id"
                   THEN DictSet(p1, "sh:nodeKind", IdRef("sh:IRI"))
                   ELSE IF jsonld_meta.type \in
                             {"xsd:string", "xsd:integer", "xsd:double",
                              "xsd:boolean", "xsd:decimal"}
                        THEN DictSet(p1, "sh:datatype", IdRef(jsonld_meta.type))
                        ELSE p1
              ELSE IF xsd_type # "" THEN DictSet(p1, "sh:datatype", IdRef(xsd_type))
                   ELSE p1
    IN  Dict(_add_field_constraints(p2, field_info, field_type))
\* A property shape for every descriptor, with or without IRI.
ShapeForAnyIri(field_name, field_info, jsonld_meta, base_iri) ==
    ShapeOf(field_name, field_info, jsonld_meta, base_iri)
_build_property_shape(field_name, field_info, jsonld_meta, base_iri) ==
    IF jsonld_meta.iri = "" THEN PyNone
    ELSE ShapeOf(field_name, field_info, jsonld_meta, base_iri)

\* Lines 50-63: the loop over model_fields.
RECURSIVE PropertyShapes(_, _)
PropertyShapes(fs, base_iri) ==
    IF fs = <<>> THEN <<>>
    ELSE LET f == Head(fs)
             property_shape ==
                 _build_property_shape(f.name, f.info, f.info.jsonld_meta, base_iri)
         IN  IF ~f.info.jsonld_meta.annotated \/ property_shape = PyNone
             THEN PropertyShapes(Tail(fs), base_iri)
             ELSE <<property_shape>> \o PropertyShapes(Tail(fs), base_iri)

export_shacl(config, cls, fs) ==
    LET \* getattr(model_class, attr, default)
        GetAttr(attr, default) ==
            IF ClassAttr(config, cls, attr) = Unset THEN default
            ELSE ClassAttr(config, cls, attr)
        base_iri == GetAttr("base", Str("https://example.org/")).v
        prefixes == GetAttr("prefixes", Dict(EmptyDict)).v
        property_shapes == PropertyShapes(fs, base_iri)
        shape_definition ==
            [ k \in {"@id", "@type", "sh:targetClass", "sh:closed", "sh:property"} |->
                CASE k = "@id" -> Str(base_iri \o "shapes/" \o cls \o "Shape")
                  [] k = "@type" -> Str("sh:NodeShape")
                  [] k = "sh:targetClass" -> IdRef(base_iri \o cls)
                  [] k = "sh:closed" -> [t |-> "bool", v |-> TRUE]
                  [] k = "sh:property" ->
                        List([ i \in DOMAIN property_shapes |->
                                 IdRef(property_shapes[i].v["@id"].v) ]) ]
        context ==
            DictMerge([ k \in {"sh", "xsd", "rdf", "rdfs"} |->
                          CASE k = "sh" -> Str("http://www.w3.org/ns/shacl#")
                            [] k = "xsd" -> Str("http://www.w3.org/2001/XMLSchema#")
                            [] k = "rdf" ->
                                  Str("http://www.w3.org/1999/02/22-rdf-syntax-ns#")
                            [] k = "rdfs" ->
                                  Str("http://www.w3.org/2000/01/rdf-schema#") ],
                      prefixes)
    IN  Ok([ k \in {"@context", "@graph"} |->
               IF k = "@context" THEN Dict(context)
               ELSE List(<<Dict(shape_definition)>> \o property_shapes) ])

\* The model classes export_shacl is applied to.
ShaclModels ==
    LET T(k) == [k |-> k, args |-> <<>>]
        ListOf(x) == [k |-> "list", args |-> <<x>>]
        UnionOf(x, y) == [k |-> "Union", args |-> <<x, y>>]
        OptionalOf(x) == UnionOf(x, T("NoneType"))
        Num(n) == [t |-> "int", v |-> n]
        None == [k \in {} |-> PyNone]
        Default(x) == [k \in {"default"} |-> x]
        name == ModelField("name", T("str"), Term("schema:name", "", "", ""),
                           [ k \in {"min_length", "max_length", "pattern"} |->
                               CASE k = "min_length" -> Num(2)
                                 [] k = "max_length" -> Num(5)
                                 [] k = "pattern" -> Str("^a") ])
        internal_field == ModelField("internal_field", T("str"), NoMeta,
                                     Default(Str("default")))
        age == ModelField("age", T("int"), Term("schema:age", "xsd:integer", "", ""),
                          [k \in {"ge", "lt"} |-> IF k = "ge" THEN Num(0) ELSE Num(150)])
        weight == ModelField("weight", OptionalOf(T("float")),
                             Term("schema:weight", "", "", ""), Default(PyNone))
        keywords == ModelField("keywords", ListOf(T("str")),
                               Term("schema:keywords", "", "@set", ""),
                               [k \in {"min_length"} |-> Num(2)])
        aliases == ModelField("aliases", OptionalOf(ListOf(T("str"))),
                              Term("ex:aliases", "", "", ""),
                              DictSet(Default(PyNone), "max_length", Num(3)))
        identifier == ModelField("identifier", T("str"),
                                 Term("schema:identifier", "@id", "", ""), None)
        e == ModelField("e", T("str"), Term("", "", "", ""), None)
        kind == ModelField("kind", T("str"), Term("ex:kind", "schema:Text", "", ""), None)
        count == ModelField("count",
                            [k |-> "UnionType", args |-> <<T("int"), T("NoneType")>>],
                            Term("ex:count", "", "", ""), Default(PyNone))
        active == ModelField("active", T("bool"), Term("schema:active", "", "", ""),
                             Default([t |-> "bool", v |-> TRUE]))
        props == ModelField("props", [k |-> "dict", args |-> <<T("str"), T("str")>>],
                            Term("ex:props", "", "", ""), None)
        owner == ModelField("owner", T("CustomType"), Term("ex:owner", "", "", ""), None)
        items == ModelField("items", T("list_class"), Term("ex:items", "", "", ""), None)
        scores == ModelField("scores", ListOf(OptionalOf(T("int"))),
                             Term("ex:scores", "", "", ""), None)
        either == ModelField("either", UnionOf(T("int"), T("str")),
                             Term("ex:either", "", "", ""), None)
    IN  { <<name, internal_field>>, <<age, weight>>, <<keywords, aliases>>,
          <<identifier, e>>, <<kind, count>>, <<active, props, owner, items>>,
          <<scores, either>> }

(***************************************************************************)
(* The SHACL run: a model class is configured, then compiled to shapes.    *)
(***************************************************************************)
InitShacl ==
    /\ classFields \in ShaclModels
    /\ cfg = [c \in Classes |-> NoConfig]
    /\ nconf = 0
    /\ last = NoCall
    /\ callerDoc = EmptyDict
    /\ callerInstance = EmptyDict
    /\ held = EmptyDict
    /\ sig1 = NoSign
    /\ tampered = NoTamper

ExportShacl ==
    \E cls \in Classes :
        /\ last' = [ op |-> "export_shacl", arg |-> Str(cls),
                     out |-> export_shacl(cfg, cls, classFields) ]
        /\ UNCHANGED <<callerDoc, classFields, callerInstance, held, sig1,
                       tampered, cfg, nconf>>

NextShacl ==
    \/ Configure
    \/ ExportShacl

SpecShacl == InitShacl /\ [][NextShacl]_vars

(***************************************************************************)
(* models.py: JsonLDModel.export_graph; export_mixed_graph.                *)
(***************************************************************************)
\* An instance is [cls, data]: its concrete class and its field values.
\* isinstance(instance, cls): cls is the instance's class or one of its bases.
isinstance(instance, cls) ==
    \E i \in DOMAIN Bases(instance.cls) : Bases(instance.cls)[i] = cls

\* datetime.now().strftime("%Y%m%d-%H%M%S")
StrfTime(now) == "20250715-14300" \o ToString(now)

\* auto_id_pattern.format(index=i+1, **item_data).  A pattern is a sequence
\* of literal texts and {placeholders}, "" having none.  A key "index" of the
\* item is a second value for the keyword index.
FormatId(auto_id_pattern, index, item_data) ==
    LET kwargs == DictSet(item_data, "index", [t |-> "int", v |-> index])
        \* str(value)
        PyStrOf(value) ==
            CASE value.t = "str" -> value.v
              [] value.t = "int" -> ToString(value.v)
              [] OTHER -> "None"
        RECURSIVE FormatParts(_)
        FormatParts(parts) ==
            IF parts = <<>> THEN Ok("")
            ELSE LET rest == FormatParts(Tail(parts))
                     x == Head(parts)
                 IN  IF x.kind = "field" /\ x.s \notin DOMAIN kwargs
                     THEN Raise("KeyError")
                     ELSE IF ~rest.ok THEN rest
                     ELSE Ok((IF x.kind = "lit" THEN x.s ELSE PyStrOf(kwargs[x.s]))
                             \o rest.val)
    IN  IF "index" \in DOMAIN item_data THEN Raise("TypeError")
        ELSE FormatParts(auto_id_pattern.v)

\* Python truth of a pattern or of a metadata mapping.
Given(x) ==
    CASE x.t = "none" -> FALSE
      [] x.t = "pattern" -> x.v # <<>>
      [] OTHER -> Truthy(x)

\* A loop that keeps only the item of the last instance.
GraphItemsLastOnly(fs, instances, n, auto_id_pattern) ==
    IF n = 0 THEN Ok(<<>>)
    ELSE Ok(<<Dict(model_dump(fs, instances[n].data))>>)
\* Lines 216-226: the items of the instances up to the n-th; the first
\* failure is raised.
RECURSIVE GraphItems(_, _, _, _)
GraphItems(fs, instances, n, auto_id_pattern) ==
    IF n = 0 THEN Ok(<<>>)
    ELSE LET before == GraphItems(fs, instances, n - 1, auto_id_pattern)
             item_data == model_dump(fs, instances[n].data)
             id == FormatId(auto_id_pattern, n, item_data)
         IN  IF ~before.ok THEN before
             ELSE IF "@id" \notin DOMAIN item_data /\ Given(auto_id_pattern)
             THEN IF id.ok
                  THEN Ok(Append(before.val, Dict(DictSet(item_data, "@id", Str(id.val)))))
                  ELSE id
             ELSE Ok(Append(before.val, Dict(item_data)))

\* A document that is always given a time-stamped id.
GraphDocumentStamped(context, graph_id, name, now, graph_items, metadata) ==
    LET graph_doc == [ k \in {"@context", "@id", "@type", "@graph"} |->
                         CASE k = "@context" -> context
                           [] k = "@id" -> Str(name \o "-graph-" \o StrfTime(now))
                           [] k = "@type" -> Str("Dataset")
                           [] k = "@graph" -> List(graph_items) ]
    IN  IF Given(metadata) THEN DictMerge(graph_doc, metadata.v) ELSE graph_doc
\* Lines 206-210 and 228-238: the graph id, the document, then
\* graph_doc.update(metadata).
GraphDocument(context, graph_id, name, now, graph_items, metadata) ==
    LET graph_doc == [ k \in {"@context", "@id", "@type", "@graph"} |->
                         CASE k = "@context" -> context
                           [] k = "@id" ->
                                 IF graph_id = PyNone
                                 THEN Str(name \o "-graph-" \o StrfTime(now))
                                 ELSE graph_id
                           [] k = "@type" -> Str("Dataset")
                           [] k = "@graph" -> List(graph_items) ]
    IN  IF Given(metadata) THEN DictMerge(graph_doc, metadata.v) ELSE graph_doc

\* An export_graph that answers an empty instances list with an empty graph.
export_graph_defaulting(config, cls, fs, instances, graph_id, metadata, auto_id_pattern, now) ==
    LET context_doc == export_context(config, cls, fs)
        items == GraphItems(fs, instances, Len(instances), auto_id_pattern)
    IN  IF \E i \in DOMAIN instances : ~isinstance(instances[i], cls)
        THEN Raise("ValueError: All instances must be of type")
        ELSE IF ~context_doc.ok THEN context_doc
        ELSE IF ~items.ok THEN items
        ELSE Ok(GraphDocument(context_doc.val["@context"], graph_id, cls, now,
                              items.val, metadata))

export_graph(config, cls, fs, instances, graph_id, metadata, auto_id_pattern, now) ==
    LET context_doc == export_context(config, cls, fs)
        items == GraphItems(fs, instances, Len(instances), auto_id_pattern)
    IN  IF instances = <<>>
        THEN Raise("ValueError: Cannot create graph from empty instances list")
        ELSE IF \E i \in DOMAIN instances : ~isinstance(instances[i], cls)
        THEN Raise("ValueError: All instances must be of type")
        ELSE IF ~context_doc.ok THEN context_doc
        ELSE IF ~items.ok THEN items
        ELSE IF ~validate_context([k \in {"@context"} |-> context_doc.val["@context"]]).ok
        THEN Raise("ValueError")
        ELSE Ok(GraphDocument(context_doc.val["@context"], graph_id, cls, now,
                              items.val, metadata))

\* export_mixed_graph(models, graph_id, metadata): the instances may be of
\* different classes; the context is the union of the contexts compiled for
\* the classes of the instances, in input order.
export_mixed_graph(config, fs, models, graph_id, metadata, now) ==
    LET CompiledContext(cls) ==
            LET context_doc == export_context(config, cls, fs)
            IN  IF ~context_doc.ok THEN context_doc
                ELSE IF context_doc.val["@context"].t = "list"
                THEN Ok(context_doc.val["@context"].v[Len(context_doc.val["@context"].v)].v)
                ELSE Ok(context_doc.val["@context"].v)
        RECURSIVE MixedContext(_)
        MixedContext(n) ==
            IF n = 0 THEN Ok(EmptyDict)
            ELSE LET before == MixedContext(n - 1)
                     one == CompiledContext(models[n].cls)
                 IN  IF ~before.ok THEN before
                     ELSE IF ~one.ok THEN one
                     ELSE Ok(DictMerge(before.val, one.val))
        context == MixedContext(Len(models))
        items == GraphItems(fs, models, Len(models), PyNone)
    IN  IF models = <<>>
        THEN Raise("ValueError: Cannot create graph from empty models list")
        ELSE IF ~context.ok THEN context
        ELSE Ok(GraphDocument(Dict(context.val), graph_id, "mixed", now, items.val,
                              metadata))

\* The model classes of the graph exports: without @id, with a field
\* serialized as @id, with a field named index, with an invalid container.
GraphFields ==
    { <<FName, FEmail>>,
      <<Field("identifier", "", "@id", Term("schema:identifier", "@id", "", "")), FName>>,
      <<Field("index", "", "index", Term("schema:position", "", "", "")), FName>>,
      <<FBadContainer>> }
\* No instance, one, or two; each of any of the classes.
InstanceLists(fs) ==
    LET Person(cls, who) ==
            [cls |-> cls, data |-> [name \in { fs[i].name : i \in DOMAIN fs } |-> Str(who)]]
    IN  {<<>>}
        \cup { <<Person(c, "Alice")>> : c \in Classes }
        \cup { <<Person(c, "Alice"), Person(d, "Bob")>> : c, d \in Classes }
\* graph_id, metadata and auto_id_pattern of a call.
GraphArgs ==
    LET Lit(s) == [kind |-> "lit", s |-> s]
        Placeholder(s) == [kind |-> "field", s |-> s]
        Pattern(parts) == [t |-> "pattern", v |-> parts]
    IN  [ graph_id : {PyNone, Str("test-people-graph")},
          metadata :
              { PyNone, Dict(EmptyDict),
                Dict([k \in {"created", "source"} |->
                        IF k = "created" THEN Str("2024-07-15") ELSE Str("test")]),
                Dict([k \in {"@id"} |-> Str("urn:other")]) },
          auto_id_pattern :
              { PyNone, Pattern(<<>>),
                Pattern(<<Lit("person-"), Placeholder("index")>>),
                Pattern(<<Lit("p-"), Placeholder("index"), Lit("-"), Placeholder("name")>>),
                Pattern(<<Placeholder("nope")>>),
                Pattern(<<Lit("fixed")>>) } ]

(***************************************************************************)
(* The graph run: instances of configured classes are exported as a graph. *)
(* A run is one export call, whose result is then inspected.               *)
(***************************************************************************)
InitGraph ==
    /\ classFields \in GraphFields
    /\ cfg \in { [c \in Classes |-> NoConfig], TestConfig }
    /\ nconf = 0
    /\ last = NoCall
    /\ callerDoc = EmptyDict
    /\ callerInstance = EmptyDict
    /\ held = EmptyDict
    /\ sig1 = NoSign
    /\ tampered = NoTamper

ExportGraph ==
    \E cls \in Classes, instances \in InstanceLists(classFields), a \in GraphArgs, now \in Times :
        /\ last = NoCall
        /\ last' = [ op |-> "export_graph",
                     arg |-> [ cls |-> cls, instances |-> instances,
                               graph_id |-> a.graph_id, metadata |-> a.metadata,
                               auto_id_pattern |-> a.auto_id_pattern,
                               now |-> IF a.graph_id = PyNone THEN now ELSE 0 ],
                     out |-> export_graph(cfg, cls, classFields, instances, a.graph_id,
                                          a.metadata, a.auto_id_pattern, now) ]
        /\ UNCHANGED <<callerDoc, classFields, callerInstance, held, sig1,
                       tampered, cfg, nconf>>

ExportMixedGraph ==
    \E models \in InstanceLists(classFields), a \in GraphArgs, now \in Times :
        /\ last = NoCall
        /\ last' = [ op |-> "export_mixed_graph",
                     arg |-> [ cls |-> "", instances |-> models,
                               graph_id |-> a.graph_id, metadata |-> a.metadata,
                               auto_id_pattern |-> PyNone,
                               now |-> IF a.graph_id = PyNone THEN now ELSE 0 ],
                     out |-> export_mixed_graph(cfg, classFields, models, a.graph_id,
                                                a.metadata, now) ]
        /\ UNCHANGED <<callerDoc, classFields, callerInstance, held, sig1,
                       tampered, cfg, nconf>>

NextGraph ==
    \/ ExportGraph
    \/ ExportMixedGraph

SpecGraph == InitGraph /\ [][NextGraph]_vars

(***************************************************************************)
(* validation.py: validate_context called on a context document.           *)
(***************************************************************************)
\* The context documents given to the validator: one key of a context
\* object with one value, term definitions with one more key, sequences of
\* up to two elements, values that are neither mapping nor sequence, and a
\* document without @context.
ValidatorInputs ==
    LET Num(x) == [t |-> "num", v |-> x]
        Bool(b) == [t |-> "bool", v |-> b]
        Five == [t |-> "int", v |-> 5]
        Bytes(s) == [t |-> "bytes", v |-> s]
        One(k, x) == [j \in {k} |-> x]
        Values == { Str("https://schema.org/"), Str("en"), Num("1.1"), Num("1.0"),
                    Bool(TRUE), PyNone, List(<<Str("@set")>>),
                    Dict(One("@id", Str(NameIri))), Dict(EmptyDict) }
        Keys == { "@version", "@base", "@vocab", "@language", "@import", "@protected",
                  "@propagate", "@id", "@type", "name" }
        ExtraKeys == {"@type", "@container", "@language", "@reverse", "@nest", "@graph", "foo"}
        ExtraValues == { Str("@set"), Str("@bag"), Str("en"), Five, PyNone,
                         List(<<Str("@set"), Str("@index")>>), List(<<Str("@bag")>>),
                         List(<<Five>>), List(<<>>), Tuple(<<Str("@set")>>) }
        TermDefinitions ==
            { DictSet(One("@id", Str(NameIri)), k, x) : k \in ExtraKeys, x \in ExtraValues }
            \cup { One("@type", Str("@id")), One("@id", Five) }
        Objects ==
            { One(k, x) : k \in Keys, x \in Values }
            \cup { One("name", Dict(d)) : d \in TermDefinitions }
            \cup { DictSet(One("name", Str(NameIri)), k, x) :
                     k \in {"@version", "@language", "email"},
                     x \in {Num("1.1"), Str("en"), Five} }
            \cup { EmptyDict }
        Elements == { Str("https://schema.org/"), Str("http://schema.org/name"),
                      Str("ftp://example.org/context.jsonld"), Str(""),
                      Bytes("https://schema.org/"), Five, PyNone, List(<<>>),
                      Dict(NameContext), Dict(One("@foo", Str("en"))),
                      Dict(One("name", Five)) }
        Sequences == {<<>>} \cup { <<x>> : x \in Elements }
                            \cup { <<x, y>> : x, y \in Elements }
        Contexts ==
            { Dict(o) : o \in Objects }
            \cup { List(q) : q \in Sequences }
            \cup { Tuple(<<Str("https://schema.org/")>>),
                   Tuple(<<Str("ftp://example.org/context.jsonld")>>),
                   Str("https://schema.org/"), Five, PyNone, Bool(TRUE) }
    IN  { One("@context", c) : c \in Contexts } \cup { One("name", Str("Alice")) }

InitVal ==
    /\ callerDoc \in ValidatorInputs
    /\ classFields = <<>>
    /\ cfg = [c \in Classes |-> NoConfig]
    /\ nconf = 0
    /\ last = NoCall
    /\ callerInstance = EmptyDict
    /\ held = EmptyDict
    /\ sig1 = NoSign
    /\ tampered = NoTamper

ValidateContext ==
    /\ last = NoCall
    /\ last' = [ op |-> "validate_context", arg |-> PyNone,
                 out |-> validate_context(callerDoc) ]
    /\ UNCHANGED <<callerDoc, classFields, callerInstance, held, sig1, tampered,
                   cfg, nconf>>

NextVal ==
    \/ ValidateContext

SpecVal == InitVal /\ [][NextVal]_vars

(***************************************************************************)
(* Properties of signing and verification.                                 *)
(***************************************************************************)
VerifyOps == {"verify", "model_verify"}
\* key is an Ed25519 public key object, or the 32 raw bytes of one.
IsPublicKey(key) ==
    \/ key.t = "Ed25519PublicKey"
    \/ key.t = "bytes" /\ key.len = 32
\* The caller verified what it holds with the public key of pair i.
VerifiedWith(i) ==
    /\ last.op \in VerifyOps
    /\ IsPublicKey(last.arg)
    /\ last.arg.id = i

\* C1: verifying what sign returned, unchanged, with the public key of the
\* pair that signed returns true, whatever verification_method, created and
\* proof_purpose were, for sign_jsonld_document and SignableJsonLDModel.sign
\* alike.
C1_SignThenVerify ==
    (Fresh /\ VerifiedWith(sig1.key.id)) => last.out = Ok(TRUE)
C1_Witness ==
    /\ Fresh
    /\ sig1.via = "model"
    /\ sig1.args.vm = PyNone
    /\ last.op = "model_verify"
    /\ VerifiedWith(sig1.key.id)
    /\ last.out = Ok(TRUE)

\* C2: once any field of a signed document other than proof.proofValue is
\* changed (a payload key, or proof.type, proof.created,
\* proof.verificationMethod, proof.proofPurpose), verify with the matching
\* public key returns false.
C2_TamperDetected ==
    (tampered.in \in {"payload", "proof"} /\ VerifiedWith(sig1.key.id))
        => last.out = Ok(FALSE)

\* C3: verifying a signed document with the public key of another pair
\* than the one that signed returns false.
C3_WrongKeyRejected ==
    (Fresh /\ \E i \in KeyIds \ {sig1.key.id} : VerifiedWith(i))
        => last.out = Ok(FALSE)
C3_Witness ==
    /\ Fresh
    /\ last.op = "verify"
    /\ last.arg \in PublicKeyObjects
    /\ last.arg.id # sig1.key.id
    /\ last.out = Ok(FALSE)

C5_SignDeterministic ==
    (sig1.via \in {"document", "model"} /\ sig1.args.created # PyNone)
        => \A now \in Times :
              sig1.out =
                 IF sig1.via = "document"
                 THEN sign_jsonld_document(callerDoc, sig1.key, sig1.args.vm,
                                           sig1.args.created, sig1.args.pp, now)
                 ELSE Signable_sign(cfg, "Model", classFields, callerInstance,
                                    sig1.key, sig1.args.vm, sig1.args.created,
                                    sig1.args.pp, now)
C5_Witness ==
    /\ sig1.via = "document"
    /\ sig1.args.created # PyNone
    /\ sig1.args.vm = PyNone
    /\ last.op = "sign"
    /\ last.out.ok
    /\ "proofValue" \in DOMAIN last.out.val["proof"].v

\* C6: a document returned by sign has a proof object with exactly the keys
\* type, created, verificationMethod, proofPurpose and proofValue: type is
\* Ed25519Signature2020, the next three are the arguments given (created
\* defaulting to the time of the call, verificationMethod to "key-" and the
\* first 8 base64 characters of the public key, proofPurpose to
\* assertionMethod) and proofValue is the base64 text of the signature; a
\* sign call that returns no such document raises an error.
ExpectedKeyId(i) == IF i = 1 THEN "key-11qYAYKx" ELSE "key-PUAXw+hD"
C6_ProofComplete ==
    last.op = "sign" =>
        IF last.out.ok
        THEN LET proof == last.out.val["proof"]
                 a == sig1.args
             IN  /\ sig1.out = last.out
                 /\ proof.t = "dict"
                 /\ DOMAIN proof.v = {"type", "created", "verificationMethod",
                                      "proofPurpose", "proofValue"}
                 /\ proof.v["type"] = Str("Ed25519Signature2020")
                 /\ proof.v["created"] =
                       (IF a.created = PyNone THEN Str(IsoFormat(sig1.now))
                        ELSE a.created)
                 /\ proof.v["verificationMethod"] =
                       (IF a.vm = PyNone THEN Str(ExpectedKeyId(sig1.key.id))
                        ELSE a.vm)
                 /\ proof.v["proofPurpose"] =
                       (IF a.pp = Omitted THEN Str("assertionMethod") ELSE a.pp)
                 /\ proof.v["proofValue"].t = "b64"
                 /\ proof.v["proofValue"].v.t = "sig"
                 /\ proof.v["proofValue"].v.signer = sig1.key.id
        ELSE last.out.err \in {"ValueError", "TypeError"}
C6_Witness ==
    /\ last.op = "sign"
    /\ last.out.ok
    /\ sig1.args.vm = PyNone
    /\ sig1.args.pp = Omitted
    /\ sig1.key.id = 2
    /\ last.out.val["proof"].v["verificationMethod"] = Str("key-PUAXw+hD")

\* The keys and values of the caller's instance survive a JSON copy.
JsonNative(d) == JsonLoadsDumps(d) = Ok(d)
SignedInstance == Fresh /\ sig1.via = "model"

C8_RemoveProof ==
    (last.op = "remove_proof" /\ JsonNative(last.arg.v))
        => /\ last.out = Ok(DictDel(last.arg.v, "proof"))
           /\ remove_proof(last.out.val) = last.out
           /\ (Fresh /\ sig1.via = "document" /\ "proof" \notin DOMAIN callerDoc)
                 => last.out.val = callerDoc
C8_Witness ==
    /\ last.op = "remove_proof"
    /\ Fresh
    /\ sig1.via = "document"
    /\ "proof" \notin DOMAIN callerDoc
    /\ "@context" \in DOMAIN callerDoc
    /\ last.out = Ok(callerDoc)

(***************************************************************************)
(* Properties of the context compiler.                                     *)
(***************************************************************************)
\* The local context of an exported context: the mapping itself, or the
\* last element of the sequence that starts with the remote contexts.
LocalOf(result) ==
    LET context == result["@context"]
    IN  IF context.t = "list" THEN context.v[Len(context.v)].v ELSE context.v
Exported == last.op = "export_context" /\ last.out.ok
FieldsOf(fs) == { fs[i] : i \in DOMAIN fs }

\* C9: a field that carries a descriptor and is aliased to @id is written
\* into the local context under the term name @id, with the descriptor's
\* IRI as @id and the descriptor's @type, and the field's own name is no
\* key of the context.
C9_IdAliasWritten ==
    Exported =>
        \A f \in FieldsOf(classFields) :
            (f.meta.annotated /\ f.alias = "@id")
                => /\ "@id" \in DOMAIN LocalOf(last.out.val)
                   /\ LocalOf(last.out.val)["@id"] =
                         Dict([ k \in {"@id", "@type"} |->
                                  IF k = "@id" THEN Str(f.meta.iri)
                                  ELSE Str(f.meta.type) ])
                   /\ f.name \notin DOMAIN LocalOf(last.out.val)

\* C10: the name of a field without descriptor is never a key of the
\* local context, whatever the model and its configuration.
C10_UnannotatedExcluded ==
    Exported =>
        \A f \in FieldsOf(classFields) :
            ~f.meta.annotated => f.name \notin DOMAIN LocalOf(last.out.val)

\* The keys the configuration and the fields with a descriptor put into
\* the local context of class cls.
PrefixKeys(config, cls) ==
    LET prefixes == ClassAttr(config, cls, "prefixes")
    IN  IF prefixes.t = "dict" THEN DOMAIN prefixes.v ELSE {}
AnnotatedTermNames(fs) ==
    { IF f.alias # "" THEN f.alias ELSE f.name :
        f \in { g \in FieldsOf(fs) : g.meta.annotated } }

\* C10, amended: the name of a field without descriptor is a key of the
\* local context only where it is also a configured prefix or the term
\* name of a field that carries a descriptor; the field itself adds no key.
C10_UnannotatedAddsNoKey ==
    Exported =>
        \A f \in FieldsOf(classFields) :
            ( /\ ~f.meta.annotated
              /\ f.name \notin PrefixKeys(cfg, last.arg.v)
              /\ f.name \notin AnnotatedTermNames(classFields) )
            => f.name \notin DOMAIN LocalOf(last.out.val)
C10_Witness ==
    /\ Exported
    /\ classFields = <<FName, FNote>>
    /\ PrefixKeys(cfg, last.arg.v) = {"schema", "xsd"}
    /\ DOMAIN LocalOf(last.out.val) = {"@base", "schema", "xsd", "name"}

\* The context export_context was called on: the class and its fields.
ExportCalled == last.op = "export_context"
\* Grammar violations of the context to build: a descriptor container that
\* is none of the allowed keywords, or a remote context that is a string
\* but no http(s) IRI.
BadContainer ==
    \E f \in FieldsOf(classFields) :
        /\ f.meta.annotated
        /\ f.alias = ""
        /\ f.meta.container
              \notin {"", "@list", "@set", "@index", "@language", "@id", "@type"}
BadRemote(cls) ==
    LET remote == ClassAttr(cfg, cls, "remote_contexts")
    IN  /\ remote.t = "list"
        /\ \E i \in DOMAIN remote.v :
              /\ remote.v[i].t = "str"
              /\ remote.v[i].v
                    \in {"ftp://example.org/context.jsonld", "context.jsonld"}

\* C11: what export_context returns passes validate_context, and where the
\* context it builds violates the grammar (a descriptor container outside
\* the allowed keywords, a remote context string that is no http(s) IRI)
\* the call raises the invalid-context error and returns nothing.
C11_ExportValidated ==
    ExportCalled =>
        /\ last.out.ok =>
              /\ DOMAIN last.out.val = {"@context"}
              /\ validate_context(last.out.val) = Ok(PyNone)
        /\ (BadContainer \/ BadRemote(last.arg.v)) => last.out = Raise("ValueError")
        /\ ~last.out.ok => last.out = Raise("ValueError")
C11_Witness ==
    /\ ExportCalled
    /\ BadRemote(last.arg.v)
    /\ ~BadContainer
    /\ last.out = Raise("ValueError")

\* C12: with remote contexts configured, the @context value is the remote
\* contexts in configured order followed by the local context mapping;
\* with none configured it is the local context mapping alone.
C12_RemoteThenLocal ==
    Exported =>
        LET remote == ClassAttr(cfg, last.arg.v, "remote_contexts")
            context == last.out.val["@context"]
        IN  IF remote.t = "list" /\ Len(remote.v) > 0
            THEN /\ context.t = "list"
                 /\ Len(context.v) = Len(remote.v) + 1
                 /\ \A i \in DOMAIN remote.v : context.v[i] = remote.v[i]
                 /\ context.v[Len(context.v)] =
                       Dict(LocalContext(cfg, last.arg.v, classFields))
            ELSE context = Dict(LocalContext(cfg, last.arg.v, classFields))
C12_Witness ==
    /\ Exported
    /\ last.out.val["@context"].t = "list"
    /\ Len(last.out.val["@context"].v) = 3
    /\ last.out.val["@context"].v[1] = Str(SchemaOrgUrl)
    /\ last.out.val["@context"].v[3].t = "dict"
    /\ "@base" \in DOMAIN last.out.val["@context"].v[3].v

\* C13: a configure_jsonld call overwrites exactly the options it is
\* passed, on the class it is called on, and leaves every other option of
\* every class at its value; making the same call again changes nothing.
ConfigOptions == {"base", "vocab", "remote_contexts", "prefixes"}
C13_ConfigureUpserts ==
    [][ (last'.op = "configure_jsonld" /\ nconf' = nconf + 1) =>
          LET cls == last'.arg.cls
              c == last'.arg.call
          IN  /\ \A k \in Classes, o \in ConfigOptions :
                    cfg'[k][o] = IF k = cls /\ c[o] # PyNone THEN c[o]
                                 ELSE cfg[k][o]
              /\ configure_jsonld(cfg', cls, c.base, c.vocab,
                                  c.remote_contexts, c.prefixes) = cfg' ]_vars
C13_Witness ==
    /\ last.op = "configure_jsonld"
    /\ nconf = 2
    /\ last.arg.call.base = PyNone
    /\ last.arg.call.vocab = Str("https://schema.org/")
    /\ cfg[last.arg.cls].base = Str("https://example.org/")
    /\ cfg[last.arg.cls].vocab = Str("https://schema.org/")

(***************************************************************************)
(* Properties of export_shacl (SpecShacl).                                 *)
(***************************************************************************)
Int(n) == [t |-> "int", v |-> n]
ShaclCalled == last.op = "export_shacl" /\ last.out.ok
ShaclGraph == last.out.val["@graph"].v
NodeShape == ShaclGraph[1].v
\* The property shapes of the exported graph whose sh:path is iri.
ShapesFor(iri) ==
    { i \in 2..Len(ShaclGraph) : ShaclGraph[i].v["sh:path"] = IdRef(iri) }
AnnotatedFields ==
    { i \in DOMAIN classFields : classFields[i].info.jsonld_meta.annotated }
\* The node shape is closed and lists exactly the property shapes of the graph.
NodeShapeClosed ==
    /\ NodeShape["@type"] = Str("sh:NodeShape")
    /\ NodeShape["sh:closed"] = [t |-> "bool", v |-> TRUE]
    /\ NodeShape["sh:property"].v =
          [ i \in 1..(Len(ShaclGraph) - 1) |-> IdRef(ShaclGraph[i + 1].v["@id"].v) ]
    /\ \A i \in 2..Len(ShaclGraph) : ShaclGraph[i].v["@type"] = Str("sh:PropertyShape")

\* C14 as stated: the NodeShape of the export is closed and the export has
\* exactly one PropertyShape for every annotated field of the model.
C14_ShapePerAnnotatedField ==
    ShaclCalled =>
        /\ NodeShapeClosed
        /\ Len(ShaclGraph) - 1 = Cardinality(AnnotatedFields)
        /\ \A i \in AnnotatedFields :
              Cardinality(ShapesFor(classFields[i].info.jsonld_meta.iri)) = 1

\* C14 amended: the NodeShape of the export is closed and the export has
\* exactly one PropertyShape for every annotated field whose descriptor
\* carries a non-empty IRI; an annotated field with an empty IRI has none.
FieldsWithIri ==
    { i \in AnnotatedFields : classFields[i].info.jsonld_meta.iri # "" }
C14_ShapePerFieldWithIri ==
    ShaclCalled =>
        /\ NodeShapeClosed
        /\ Len(ShaclGraph) - 1 = Cardinality(FieldsWithIri)
        /\ \A i \in FieldsWithIri :
              Cardinality(ShapesFor(classFields[i].info.jsonld_meta.iri)) = 1
C14_Witness ==
    /\ ShaclCalled
    /\ AnnotatedFields # FieldsWithIri
    /\ Len(ShaclGraph) = 2
    /\ NodeShape["sh:closed"].v

\* The annotated fields that have a property shape, and the shape of each.
ShapedFields == { i \in FieldsWithIri : ShapesFor(classFields[i].info.jsonld_meta.iri) # {} }
ShapeOfField(i) ==
    ShaclGraph[CHOOSE j \in ShapesFor(classFields[i].info.jsonld_meta.iri) : TRUE].v
HasKey(shape, key) == key \in DOMAIN shape

ScalarXsd(tp) ==
    CASE tp.k = "str" -> "xsd:string"
      [] tp.k = "int" -> "xsd:integer"
      [] tp.k = "float" -> "xsd:double"
      [] tp.k = "bool" -> "xsd:boolean"
      [] OTHER -> ""
InnerOfOptional(tp) ==
    IF tp.k \in {"Union", "UnionType"} /\ Len(tp.args) = 2 /\ tp.args[2].k = "NoneType"
    THEN tp.args[1]
    ELSE tp
ElementOfList(tp) == IF tp.k = "list" THEN tp.args[1] ELSE tp
IsXsd(type_) ==
    type_ \in {"xsd:string", "xsd:integer", "xsd:double", "xsd:boolean", "xsd:decimal"}
ExpectedDatatype(field_info) ==
    IF IsXsd(field_info.jsonld_meta.type) THEN field_info.jsonld_meta.type
    ELSE ScalarXsd(ElementOfList(InnerOfOptional(field_info.annotation)))

\* C16: export_shacl never fails, and the PropertyShape of an annotated field
\* whose descriptor type is not @id has sh:datatype equal to the explicit XSD
\* type, else to the inferred XSD type, and has no sh:datatype only when
\* neither yields one.
C16_DatatypePrecedence ==
    last.op = "export_shacl" =>
        /\ last.out.ok
        /\ \A i \in ShapedFields :
              LET shape == ShapeOfField(i)
                  xsd == ExpectedDatatype(classFields[i].info)
              IN  classFields[i].info.jsonld_meta.type # "@id" =>
                      IF xsd = "" THEN ~HasKey(shape, "sh:datatype")
                      ELSE /\ HasKey(shape, "sh:datatype")
                           /\ shape["sh:datatype"] = IdRef(xsd)

\* The shape key a declared constraint is copied to, by the kind of field.
ConstraintKey(tp, c) ==
    CASE tp.k = "str" /\ c = "min_length" -> "sh:minLength"
      [] tp.k = "str" /\ c = "max_length" -> "sh:maxLength"
      [] tp.k = "str" /\ c = "pattern" -> "sh:pattern"
      [] tp.k \in {"int", "float"} /\ c = "ge" -> "sh:minInclusive"
      [] tp.k \in {"int", "float"} /\ c = "gt" -> "sh:minExclusive"
      [] tp.k \in {"int", "float"} /\ c = "le" -> "sh:maxInclusive"
      [] tp.k \in {"int", "float"} /\ c = "lt" -> "sh:maxExclusive"
      [] tp.k = "list" /\ c = "min_length" -> "sh:minCount"
      [] tp.k = "list" /\ c = "max_length" -> "sh:maxCount"
      [] OTHER -> ""
ConstraintKeys ==
    { "sh:minLength", "sh:maxLength", "sh:pattern", "sh:minInclusive",
      "sh:minExclusive", "sh:maxInclusive", "sh:maxExclusive", "sh:maxCount" }

\* C17: every validation constraint declared on an annotated field is on its
\* PropertyShape under the corresponding SHACL key with the same value, and
\* no such key is on the shape when the constraint is not declared.
C17_ConstraintsCopied ==
    ShaclCalled =>
        \A i \in ShapedFields :
            LET shape == ShapeOfField(i)
                info == classFields[i].info
                tp == InnerOfOptional(info.annotation)
            IN  /\ \A c \in DOMAIN info.metadata :
                      ConstraintKey(tp, c) # "" =>
                          /\ HasKey(shape, ConstraintKey(tp, c))
                          /\ shape[ConstraintKey(tp, c)] = info.metadata[c]
                /\ \A key \in ConstraintKeys :
                      HasKey(shape, key) =>
                          \E c \in DOMAIN info.metadata : ConstraintKey(tp, c) = key

(***************************************************************************)
(* Properties of the graph exports (SpecGraph).                            *)
(***************************************************************************)
GraphOps == {"export_graph", "export_mixed_graph"}
EmptyInstances == "ValueError: Cannot create graph from empty instances list"
EmptyModels == "ValueError: Cannot create graph from empty models list"
TypeMismatch == "ValueError: All instances must be of type"
GraphOf(out) == out.val["@graph"].v

\* C18: a graph export called with an empty sequence raises the empty-
\* instances error (export_graph) or the empty-models error
\* (export_mixed_graph) and returns no document, whatever graph_id, metadata
\* and auto_id_pattern are.
C18_EmptyRaises ==
    (last.op \in GraphOps /\ last.arg.instances = <<>>) =>
        /\ ~last.out.ok
        /\ last.op = "export_graph" => last.out.err = EmptyInstances
        /\ last.op = "export_mixed_graph" => last.out.err = EmptyModels
C18_Witness ==
    /\ last.op = "export_graph"
    /\ last.arg.instances = <<>>
    /\ last.arg.graph_id # PyNone
    /\ Given(last.arg.metadata)
    /\ Given(last.arg.auto_id_pattern)
    /\ last.out.err = EmptyInstances

\* C19: export_graph raises the type-mismatch error and returns no document
\* whenever the concrete class of some instance is not exactly model_class,
\* be it an unrelated class or a subclass of model_class.
C19_ExactClass ==
    ( /\ last.op = "export_graph"
      /\ \E i \in DOMAIN last.arg.instances :
             last.arg.instances[i].cls # last.arg.cls ) =>
        /\ ~last.out.ok
        /\ last.out.err = TypeMismatch

\* The id the pattern gives the item at position i: {index} replaced by i and
\* each other placeholder by the item's value under that key.
RECURSIVE ExpectedId(_, _, _)
ExpectedId(parts, i, item) ==
    IF parts = <<>> THEN ""
    ELSE LET x == Head(parts)
             text == IF x.kind = "lit" THEN x.s
                     ELSE IF x.s = "index" THEN ToString(i)
                     ELSE item[x.s].v
         IN  text \o ExpectedId(Tail(parts), i, item)
\* The serialized form of the i-th instance of the call.
SerializedItem(i) == model_dump(classFields, last.arg.instances[i].data)
\* The call has instances of model_class and a model whose context exports.
GraphCallValid ==
    /\ last.op = "export_graph"
    /\ last.arg.instances # <<>>
    /\ \A i \in DOMAIN last.arg.instances : isinstance(last.arg.instances[i], last.arg.cls)
    /\ export_context(cfg, last.arg.cls, classFields).ok
\* Every placeholder of the pattern is index or a key of every item.
PatternResolvable ==
    \A p \in DOMAIN last.arg.auto_id_pattern.v :
        LET x == last.arg.auto_id_pattern.v[p]
        IN  x.kind = "field" =>
                \/ x.s = "index"
                \/ \A i \in DOMAIN last.arg.instances : x.s \in DOMAIN SerializedItem(i)

\* C20: with an auto_id_pattern, every item whose serialized form lacks @id
\* has @id = the pattern with {index} replaced by the item's 1-based position
\* in the input, and every item that has an @id keeps it; without a pattern
\* no @id is added.
C20_AutoIds ==
    GraphCallValid =>
        IF Given(last.arg.auto_id_pattern)
        THEN PatternResolvable =>
                /\ last.out.ok
                /\ Len(GraphOf(last.out)) = Len(last.arg.instances)
                /\ \A i \in DOMAIN last.arg.instances :
                      LET item == SerializedItem(i)
                      IN  IF "@id" \in DOMAIN item
                          THEN GraphOf(last.out)[i].v = item
                          ELSE GraphOf(last.out)[i].v =
                                  DictSet(item, "@id",
                                          Str(ExpectedId(last.arg.auto_id_pattern.v, i, item)))
        ELSE /\ last.out.ok
             /\ \A i \in DOMAIN last.arg.instances :
                   GraphOf(last.out)[i].v = SerializedItem(i)

\* The metadata of the call has none of the keys of the graph document.
ReservedKeys == {"@context", "@id", "@type", "@graph"}
MetadataKeys ==
    IF last.arg.metadata.t = "dict" THEN DOMAIN last.arg.metadata.v ELSE {}

\* C21: given a non-empty sequence of instances of cls, a graph_id and
\* metadata without reserved keys (and no auto_id_pattern), export_graph
\* returns a document with @id = graph_id, @type "Dataset", one @graph item
\* per instance in input order, each the serialized form of the instance,
\* @context = export_context(cls)["@context"] and every metadata key with its
\* value; the document does not depend on the time of the call.
C21_GraphDocument ==
    ( /\ GraphCallValid
      /\ last.arg.graph_id # PyNone
      /\ MetadataKeys \cap ReservedKeys = {}
      /\ ~Given(last.arg.auto_id_pattern) ) =>
        /\ last.out.ok
        /\ last.out.val["@id"] = last.arg.graph_id
        /\ last.out.val["@type"] = Str("Dataset")
        /\ Len(GraphOf(last.out)) = Len(last.arg.instances)
        /\ \A i \in DOMAIN last.arg.instances : GraphOf(last.out)[i] = Dict(SerializedItem(i))
        /\ last.out.val["@context"] =
              export_context(cfg, last.arg.cls, classFields).val["@context"]
        /\ \A k \in MetadataKeys : last.out.val[k] = last.arg.metadata.v[k]
        /\ DOMAIN last.out.val = ReservedKeys \cup MetadataKeys
        /\ \A now \in Times :
              export_graph(cfg, last.arg.cls, classFields, last.arg.instances,
                           last.arg.graph_id, last.arg.metadata,
                           last.arg.auto_id_pattern, now) = last.out
C21_Witness ==
    /\ GraphCallValid
    /\ last.arg.graph_id # PyNone
    /\ MetadataKeys = {"created", "source"}
    /\ ~Given(last.arg.auto_id_pattern)
    /\ Len(last.arg.instances) = 2
    /\ last.out.ok
    /\ last.out.val["created"] = Str("2024-07-15")
    /\ GraphOf(last.out)[2].v["name"] = Str("Bob")

\* C22: export_mixed_graph on a non-empty sequence of instances, with a
\* graph_id and metadata without reserved keys, returns a document with
\* @id = graph_id, @type "Dataset", one @graph item per instance in input
\* order and a context that holds every term of the compiled local context
\* of the class of every instance.
C22_MixedGraph ==
    ( /\ last.op = "export_mixed_graph"
      /\ last.arg.instances # <<>>
      /\ last.arg.graph_id # PyNone
      /\ MetadataKeys \cap ReservedKeys = {}
      /\ \A i \in DOMAIN last.arg.instances :
            export_context(cfg, last.arg.instances[i].cls, classFields).ok ) =>
        /\ last.out.ok
        /\ last.out.val["@id"] = last.arg.graph_id
        /\ last.out.val["@type"] = Str("Dataset")
        /\ Len(GraphOf(last.out)) = Len(last.arg.instances)
        /\ \A i \in DOMAIN last.arg.instances :
              /\ GraphOf(last.out)[i] = Dict(SerializedItem(i))
              /\ \A term \in DOMAIN LocalContext(cfg, last.arg.instances[i].cls, classFields) :
                    term \in DOMAIN last.out.val["@context"].v
C22_Witness ==
    /\ last.op = "export_mixed_graph"
    /\ last.out.ok
    /\ Len(last.arg.instances) = 2
    /\ last.arg.instances[1].cls = "Other"
    /\ last.arg.instances[2].cls = "Model"
    /\ last.arg.graph_id # PyNone
    /\ {"@base", "schema", "name", "email"} \subseteq DOMAIN last.out.val["@context"].v
    /\ "@base" \notin DOMAIN LocalContext(cfg, "Other", classFields)

(***************************************************************************)
(* Properties of the context validator (SpecVal).                          *)
(***************************************************************************)
Validated == last.op = "validate_context" /\ "@context" \in DOMAIN callerDoc
TheContext == callerDoc["@context"]
IsString(x) == x.t \in {"str", "b64"}

\* The context-level keyword rule, for one key of a context mapping.
ContextKeywords ==
    {"@version", "@base", "@vocab", "@language", "@import", "@protected"}
KeywordRule(key, value) ==
    CASE key = "@version" -> value = [t |-> "num", v |-> "1.1"]
      [] key \in {"@base", "@vocab", "@language", "@import"} -> IsString(value)
      [] key = "@protected" -> value.t = "bool"
      [] StartsWithAt(key) /\ key \notin RedefinableKeywords -> FALSE
      [] OTHER -> TRUE
\* The term-definition rule, for the value of a key that is no keyword.
ContainerKeywords == {"@list", "@set", "@index", "@language", "@id", "@type"}
TermRule(value) ==
    \/ IsString(value)
    \/ /\ value.t = "dict"
       /\ "@id" \in DOMAIN value.v
       /\ DOMAIN value.v \subseteq
             { "@id", "@type", "@language", "@container", "@context", "@reverse",
               "@nest", "@prefix", "@protected" }
       /\ "@type" \in DOMAIN value.v => IsString(value.v["@type"])
       /\ "@language" \in DOMAIN value.v => IsString(value.v["@language"])
       /\ "@container" \in DOMAIN value.v =>
             LET c == value.v["@container"]
             IN  \/ c.t = "str" /\ c.v \in ContainerKeywords
                 \/ /\ c.t = "list"
                    /\ \A i \in DOMAIN c.v : c.v[i].t = "str" /\ c.v[i].v \in ContainerKeywords

\* C23: in a context mapping, @version is accepted only as 1.1, @base,
\* @vocab, @language and @import only as strings, @protected only as a
\* boolean, and any other @-key that is no re-definable keyword is refused;
\* every violation fails validation, and a mapping without violation whose
\* other keys are valid terms is accepted.
C23_KeywordRule ==
    (Validated /\ TheContext.t = "dict") =>
        /\ (\E key \in DOMAIN TheContext.v : ~KeywordRule(key, TheContext.v[key]))
              => ~last.out.ok
        /\ ( \A key \in DOMAIN TheContext.v :
                /\ KeywordRule(key, TheContext.v[key])
                /\ key \notin ContextKeywords => TermRule(TheContext.v[key]) )
              => last.out.ok

\* C24: a context mapping whose keys are no keywords is accepted if and only
\* if each key is mapped to a string or to an object that has @id, has only
\* term-definition keywords, a string @type and @language where present,
\* and an allowed @container or a list of allowed containers where present.
C24_TermRule ==
    ( /\ Validated
      /\ TheContext.t = "dict"
      /\ \A key \in DOMAIN TheContext.v : ~StartsWithAt(key) ) =>
        (last.out.ok <=> \A key \in DOMAIN TheContext.v : TermRule(TheContext.v[key]))
C24_Witness ==
    /\ Validated
    /\ TheContext.t = "dict"
    /\ DOMAIN TheContext.v = {"name"}
    /\ TheContext.v["name"].t = "dict"
    /\ DOMAIN TheContext.v["name"].v = {"@id", "@container"}
    /\ TheContext.v["name"].v["@container"] = List(<<Str("@set"), Str("@index")>>)
    /\ last.out.ok

\* C25: a context given as a sequence is accepted if and only if each
\* element is a string that begins with http:// or https://, or a mapping
\* that satisfies the mapping rules; a context that is neither a mapping
\* nor a sequence is refused.
IsSequence(x) == x.t \in {"list", "tuple"}
C25_SequenceRule ==
    Validated =>
        /\ IsSequence(TheContext) =>
              ( last.out.ok <=>
                  \A i \in DOMAIN TheContext.v :
                      \/ /\ TheContext.v[i].t = "str"
                         /\ TheContext.v[i].v \in
                               {"https://schema.org/", "http://schema.org/name"}
                      \/ /\ TheContext.v[i].t = "dict"
                         /\ _validate_context_object(TheContext.v[i].v) )
        /\ (~IsSequence(TheContext) /\ TheContext.t # "dict") => ~last.out.ok

(***************************************************************************)
(* Re-signing, and what the calls leave alone (Spec).                      *)
(***************************************************************************)
\* The key object the latest sign call signed with.
Signer == PrivKey(sig1.key.id)

\* C26: signing a signed document again with the same key,
\* verification_method, created and proof_purpose returns the same signed
\* document, and after any number of sign calls the document held has one
\* proof object, with no proof inside it, that verifies with the public key
\* of the last signer.
C26_ResignIdempotent ==
    Fresh =>
        /\ \A now \in Times :
              (sig1.args.created # PyNone \/ now = sig1.now) =>
                  sign_jsonld_document(held, Signer, sig1.args.vm,
                                       sig1.args.created, sig1.args.pp, now)
                     = Ok(held)
        /\ held["proof"].t = "dict"
        /\ "proof" \notin DOMAIN held["proof"].v
        /\ \A k \in (DOMAIN held) \ {"proof"} :
              held[k].t = "dict" => "proofValue" \notin DOMAIN held[k].v
        /\ verify_jsonld_document(held, PubKey(sig1.key.id)) = Ok(TRUE)
C26_Witness ==
    /\ Fresh
    /\ sig1.via = "again"
    /\ "proof" \in DOMAIN callerDoc
    /\ sign_jsonld_document(callerDoc, Signer, sig1.args.vm, sig1.args.created,
                            sig1.args.pp, sig1.now) = Ok(held)

\* C27: sign, verify, remove_proof and extract_proof_metadata leave the
\* document they are given as it was: sign neither adds a proof to the
\* caller's document nor removes one from it, and verify, remove_proof and
\* extract_proof_metadata (and the model methods built on them) leave the
\* signed document with its proof and proofValue.
FrameOps ==
    { "verify", "model_verify", "extract_proof_metadata", "remove_proof",
      "extract_data", "from_signed_document" }
KeywordFields ==
    { f \in FieldsOf(classFields) :
         StartsWithAt(TermName(f)) /\ TermName(f) # "@id" }
C28_KeywordGuard ==
    Exported =>
        /\ \A f \in KeywordFields : TermName(f) \notin DOMAIN LocalOf(last.out.val)
        /\ \A k \in DOMAIN LocalOf(last.out.val) :
              StartsWithAt(k) => k \in {"@id", "@base", "@vocab"}
C28_Witness ==
    /\ Exported
    /\ \E f \in KeywordFields : f.meta.annotated /\ TermName(f) = "@type"
    /\ "name" \in DOMAIN LocalOf(last.out.val)
    /\ "@base" \in DOMAIN LocalOf(last.out.val)
    /\ "@type" \notin DOMAIN LocalOf(last.out.val)

\* C29: export_context is computed from the configuration at the time of
\* the call: an export that succeeds carries the base, vocab, prefixes and
\* remote contexts the class has been configured with, whatever was
\* exported before, and two exports of a class with no configuration call
\* in between return the same.
Reflects(config, cls, result) ==
    LET own == config[cls]
        local == LocalOf(result)
        context == result["@context"]
    IN  /\ own.base # Unset =>
              IF own.base.t = "str" /\ own.base.v # ""
              THEN "@base" \in DOMAIN local /\ local["@base"] = own.base
              ELSE "@base" \notin DOMAIN local
        /\ own.vocab # Unset =>
              ("@vocab" \in DOMAIN local /\ local["@vocab"] = own.vocab)
        /\ own.prefixes # Unset =>
              \A p \in DOMAIN own.prefixes.v :
                  /\ p \in DOMAIN local
                  /\ \/ local[p] = own.prefixes.v[p]
                     \/ \E f \in FieldsOf(classFields) : TermName(f) = p
        /\ own.remote_contexts # Unset =>
              IF Len(own.remote_contexts.v) > 0
              THEN /\ context.t = "list"
                   /\ \A i \in DOMAIN own.remote_contexts.v :
                         context.v[i] = own.remote_contexts.v[i]
              ELSE context.t = "dict"
C29_NotCached ==
    [][ last'.op = "export_context" =>
          /\ last'.out.ok => Reflects(cfg', last'.arg.v, last'.out.val)
          /\ (last.op = "export_context" /\ last.arg = last'.arg)
                => last'.out = last.out ]_vars
C29_Witness ==
    /\ Exported
    /\ nconf = 2
    /\ cfg[last.arg.v].base = Str("https://example.org/")
    /\ cfg[last.arg.v].vocab = Str("https://schema.org/")
    /\ LocalOf(last.out.val)["@vocab"] = Str("https://schema.org/")
    /\ LocalOf(last.out.val)["@base"] = Str("https://example.org/")

\* C30: a configure_jsonld call on a class changes the configuration of that
\* class only: for every other class, parents and subclasses included, the
\* options export_context and export_shacl read, and the context exported,
\* are what they were before the call.
C30_ConfigPerClass ==
    [][ (last'.op = "configure_jsonld" /\ nconf' = nconf + 1) =>
          \A k \in Classes \ {last'.arg.cls} :
              /\ \A o \in ConfigOptions : ClassAttr(cfg', k, o) = ClassAttr(cfg, k, o)
              /\ export_context(cfg', k, classFields)
                    = export_context(cfg, k, classFields) ]_vars
====
